---- MODULE Spec2Model ----
(***************************************************************************)
(* wispr-local: the text-normalisation pipeline (formatter.js), the LLM    *)
(* refinement guard (structureJudge.js, both variants) and the logger it   *)
(* imports.  Texts are sequences of one-character strings; the JavaScript  *)
(* string and RegExp operations the code uses are written out as           *)
(* operators over such sequences.                                          *)
(***************************************************************************)
EXTENDS Integers, Sequences, FiniteSets, TLC

VARIABLES
    \* ---- validateContent harness (strict structureJudge variant)
    valRaw,         \* first argument of validateContent
    valStruct,      \* second argument of validateContent
    valMode,        \* "none" | "pair" | "deleted" | "extra": how valStruct was made
    valDeleted,     \* the whitespace-delimited word that was deleted (or <<>>)
    valResult,      \* return value of validateContent
    \* ---- format() (formatter.js)
    fmtArg,         \* the argument of the current call: a JavaScript value
    fmtPc,          \* "call" | "A" | "B" | "C" | "D" | "E" | "done"
    fmtText,        \* the local variable text
    fmtRet,         \* completion of the call: [threw, value]
    fmtRun,         \* 1: format(x), 2: format(format(x))
    fmtFirst,       \* value returned by the first run
    fmtInput,       \* x, the argument of the first run
    \* ---- applyLengthBreaks (formatter.js, Pass C)
    lbInput,        \* the argument text
    lb,             \* the locals: newText, scanStart, changed, counter, lastSpaceIndex,
                    \* chunkStartIndex, i, and the position pc in the function
    lbIter,         \* history: scanStart and newText.length when the current
                    \* iteration of while (true) began, and the iterations begun
    \* ---- improve() / callServer() (structureJudge.js, both variants)
    variant,        \* "loose" (src/structureJudge.js) | "strict" (src/unnamed/part_005)
    rawText,        \* argument rawText
    softCandidates, \* argument softCandidates
    pc,             \* position of improve
    req,            \* http.ClientRequest: "none" | "open" | "response" | "ended" | "destroyed" | "failed" | "aborted"
    resStatus,      \* status code of the response (0: none yet)
    resBody,        \* the body the server sends: [kind, chars]
    idleMs,         \* time the socket has been inactive
    promise,        \* callServer's promise: [state, value, error]
    settleCount,    \* number of resolve/reject calls made on callServer's promise
    result,         \* local result of improve
    validated,      \* outcome of the content check: "none" | "pass" | "fail"
    improved,       \* the promise improve returned: [state, value, error]
    \* ---- llamaServer.js (src/unnamed/part_000)
    serverProcess,  \* the module variable: 0 for null, else the id of a ChildProcess
    isStarting,     \* the module variable isStarting
    procs,          \* per ChildProcess: "unborn" | "failed" | "alive" | "terminating" | "closed"
    pendingEvent,   \* per ChildProcess: the event queued for it: "none" | "spawn" | "error"
    health,         \* per ChildProcess: the waitForHealth interval: "off" | "polling" | "cleared"
    \* ---- whisperRunner.js
    whisperProcs,   \* per ChildProcess of transcribe: "unborn" | "failing" | "running" | "killed" | "closed"
    currentProcess, \* the module variable: 0 for null, else the id of a ChildProcess
    whisperOp,      \* the call or event handled last: "none" | "transcribe" | "cancel" | "close" | "error"
    \* ---- db.js (src/unnamed/part_004) as used by main (src/unnamed/part_002)
    transcripts,    \* the table: per id the row [status, raw_text, final_text], status "none" if no row
    lastInsertRowid,\* the largest id AUTOINCREMENT has given out
    storeOp,        \* the handler that ran last: [op, id, threw]
    storeBefore,    \* the table as it was when that handler began
    \* ---- the hold-to-talk hook of main (src/unnamed/part_001)
    isCtrlPressed, isSpacePressed, isRecording,
    keyEvents,      \* the keydown and keyup events delivered so far
    hotkeyLog,      \* history: the 'start-recording'/'stop-recording' messages sent, in order
    \* ---- the IPC channels between main and the pill window
    toPill,         \* messages sent by main that the pill has not handled yet
    toMain,         \* messages sent by the pill that main has not handled yet
    \* ---- the pill renderer (src/unnamed/part_008)
    currentStateIndex,   \* index into states = ['idle', 'recording', 'loading']
    recordingDelayTimer, \* TRUE while the 300 ms timer of 'start-recording' is pending
    isRecordingActive,
    pillHeld,       \* history: 'start-recording' was handled and no 'stop-recording' since
    \* ---- main's 'audio:start' / 'audio:stop' handlers (src/unnamed/part_001)
    recording,      \* audioRecorder.js: the module variable recording is not null
    stopRuns,          \* per run of the 'audio:stop' handler: [pc, path, sent]
    \* ---- waitForHealth of one start() call (src/unnamed/part_000)
    attempts,       \* the local counter attempts
    healthRequests, \* http.get requests of the interval that have no response yet
    onReadyCalls    \* number of times the callback was invoked

varsVal == <<valRaw, valStruct, valMode, valDeleted, valResult>>
varsFmt == <<fmtArg, fmtPc, fmtText, fmtRet, fmtRun, fmtFirst, fmtInput>>
varsLB == <<lbInput, lb, lbIter>>
varsJudge == <<variant, rawText, softCandidates, pc, req, resStatus, resBody,
               idleMs, promise, settleCount, result, validated, improved>>
varsSrv == <<serverProcess, isStarting, procs, pendingEvent, health>>
varsWhisper == <<whisperProcs, currentProcess, whisperOp>>
varsStore == <<transcripts, lastInsertRowid, storeOp, storeBefore>>
varsKeys == <<isCtrlPressed, isSpacePressed, isRecording, keyEvents, hotkeyLog>>
varsIpc == <<toPill, toMain>>
varsPill == <<currentStateIndex, recordingDelayTimer, isRecordingActive, pillHeld>>
varsMain == <<recording, stopRuns>>
varsHealth == <<attempts, healthRequests, onReadyCalls>>
varsApp == <<varsWhisper, varsStore, varsKeys, varsIpc, varsPill, varsMain, varsHealth>>
outsideWhisper == <<varsStore, varsKeys, varsIpc, varsPill, varsMain, varsHealth>>
outsideStore == <<varsWhisper, varsKeys, varsIpc, varsPill, varsMain, varsHealth>>
outsidePill == <<varsWhisper, varsStore, varsHealth>>
outsideHealth == <<varsWhisper, varsStore, varsKeys, varsIpc, varsPill, varsMain>>
varsText == <<varsVal, varsFmt, varsLB, varsJudge, varsSrv>>
vars == <<varsText, varsApp>>

(***************************************************************************)
(* Characters                                                              *)
(***************************************************************************)
LowerChars == <<"a","b","c","d","e","f","g","h","i","j","k","l","m",
                "n","o","p","q","r","s","t","u","v","w","x","y","z">>
UpperChars == <<"A","B","C","D","E","F","G","H","I","J","K","L","M",
                "N","O","P","Q","R","S","T","U","V","W","X","Y","Z">>
LowerSet == {LowerChars[i] : i \in 1..26}
UpperSet == {UpperChars[i] : i \in 1..26}
DigitSet == {"0","1","2","3","4","5","6","7","8","9"}
NL == "\n"
TAB == "\t"
SP == " "
CR == "\r"
\* the LineTerminator characters at which ^ and $ match under the flag m
LineTerminators == {NL, CR}
\* U+2022, the bullet marker of formatter.js
BULLET == "U+2022"

\* String.prototype.toUpperCase / toLowerCase on one character
UpperOf == [c \in LowerSet |-> UpperChars[CHOOSE i \in 1..26 : LowerChars[i] = c]]
LowerOf == [c \in UpperSet |-> LowerChars[CHOOSE i \in 1..26 : UpperChars[i] = c]]
\* U+00E9 and U+00C9: a letter pair outside a-z / A-Z, which toUpperCase and
\* toLowerCase convert and the classes [a-z], \w and \b do not include
E_ACUTE == "U+00E9"
E_ACUTE_CAPITAL == "U+00C9"
ToUpper(c) == IF c \in LowerSet THEN UpperOf[c]
              ELSE IF c = E_ACUTE THEN E_ACUTE_CAPITAL ELSE c
ToLower(c) == IF c \in UpperSet THEN LowerOf[c]
              ELSE IF c = E_ACUTE_CAPITAL THEN E_ACUTE ELSE c
toLowerCase(s) == [i \in 1..Len(s) |-> ToLower(s[i])]

\* RegExp classes \s and \w, restricted to the characters of the model
IsSpace(c) == c \in {SP, TAB, NL, CR}
IsWordChar(c) == c \in LowerSet \cup UpperSet \cup DigitSet \cup {"_"}
IsAlnum(c) == c \in LowerSet \cup UpperSet \cup DigitSet

\* String.prototype.trim
RECURSIVE TrimStart(_)
TrimStart(s) ==
    IF s # <<>> /\ IsSpace(Head(s)) THEN TrimStart(Tail(s)) ELSE s
RECURSIVE TrimEnd(_)
TrimEnd(s) ==
    IF s # <<>> /\ IsSpace(s[Len(s)]) THEN TrimEnd(SubSeq(s, 1, Len(s) - 1)) ELSE s
trim(s) == TrimEnd(TrimStart(s))

\* String.prototype.split(sep) for a one-character separator:
\* ''.split(' ') is [''], 'a  b'.split(' ') is ['a', '', 'b']
RECURSIVE split(_, _)
split(s, sep) ==
    IF \E k \in 1..Len(s) : s[k] = sep
    THEN LET k == CHOOSE k \in 1..Len(s) : s[k] = sep /\ \A j \in 1..(k - 1) : s[j] # sep
         IN  <<SubSeq(s, 1, k - 1)>> \o split(SubSeq(s, k + 1, Len(s)), sep)
    ELSE <<s>>

\* replace(/\s+/g, ' ')
RECURSIVE CollapseFrom(_, _)
CollapseFrom(s, i) ==
    IF i > Len(s) THEN <<>>
    ELSE IF IsSpace(s[i])
         THEN (IF i > 1 /\ IsSpace(s[i - 1]) THEN <<>> ELSE <<SP>>) \o CollapseFrom(s, i + 1)
         ELSE <<s[i]>> \o CollapseFrom(s, i + 1)

\* The maximal runs of non-whitespace characters of s, as <<first, last>> pairs
RECURSIVE TokenSpansFrom(_, _)
TokenSpansFrom(s, i) ==
    IF i > Len(s) THEN <<>>
    ELSE IF IsSpace(s[i]) THEN TokenSpansFrom(s, i + 1)
    ELSE LET e == CHOOSE e \in i..Len(s) :
                    /\ \A j \in i..e : ~IsSpace(s[j])
                    /\ (e = Len(s) \/ IsSpace(s[e + 1]))
         IN  <<(<<i, e>>)>> \o TokenSpansFrom(s, e + 1)
TokenSpans(s) == TokenSpansFrom(s, 1)
Tokens(s) == LET sp == TokenSpans(s) IN [k \in 1..Len(sp) |-> SubSeq(s, sp[k][1], sp[k][2])]

\* The word sequence of a text: lower-cased, every character that is not a
\* letter, digit or whitespace deleted, split at whitespace (no empty words)
WordSeq(s) == Tokens(SelectSeq(toLowerCase(s), LAMBDA c : IsAlnum(c) \/ IsSpace(c)))

(***************************************************************************)
(* Strict content validation: src/unnamed/part_005                         *)
(***************************************************************************)
getWords(text) ==
    IF text = <<>> THEN <<>>
    ELSE split(trim(CollapseFrom(
                 SelectSeq(toLowerCase(text),
                           LAMBDA c : c \in LowerSet \cup DigitSet \/ IsSpace(c)), 1)), SP)

\* validateContent without the length comparison, looping over structWords
validateContent_noLength(raw, structured) ==
    LET rawWords == getWords(raw)
        structWords == getWords(structured)
    IN  \A i \in 1..Len(structWords) : i <= Len(rawWords) /\ rawWords[i] = structWords[i]

validateContent(raw, structured) ==
    LET rawWords == getWords(raw)
        structWords == getWords(structured)
    IN  IF Len(rawWords) # Len(structWords) THEN FALSE
        ELSE \A i \in 1..Len(rawWords) : rawWords[i] = structWords[i]

\* the concatenation of a sequence of texts
RECURSIVE Concat(_)
Concat(pieces) == IF pieces = <<>> THEN <<>> ELSE Head(pieces) \o Concat(Tail(pieces))

(***************************************************************************)
(* formatter.js: RegExp matching helpers                                   *)
(***************************************************************************)
\* Texts are indexed from 1; At(t, p) is the empty string outside the text
InText(t, p) == p >= 1 /\ p <= Len(t)
\* the pattern without its \b assertions
WordBoundary_anywhere(t, p) == TRUE
\* \b between the characters at p - 1 and p
WordBoundary(t, p) ==
    (InText(t, p - 1) /\ IsWordChar(t[p - 1])) # (InText(t, p) /\ IsWordChar(t[p]))
\* first position >= p that holds no \s character (Len(t) + 1 if none)
RECURSIVE SkipSpaces(_, _)
SkipSpaces(t, p) == IF InText(t, p) /\ IsSpace(t[p]) THEN SkipSpaces(t, p + 1) ELSE p
\* first position >= p that holds no newline
RECURSIVE SkipNewlines(_, _)
SkipNewlines(t, p) == IF InText(t, p) /\ t[p] = NL THEN SkipNewlines(t, p + 1) ELSE p
\* the literal w (lower case) at p, letter case ignored (flag i)
MatchLit(t, p, w) ==
    /\ p + Len(w) - 1 <= Len(t)
    /\ \A j \in 1..Len(w) : ToLower(t[p + j - 1]) = w[j]
\* words[k], \s+, words[k+1], ... at p: the position after the match, 0 if none
RECURSIVE MatchWordsFrom(_, _, _, _)
MatchWordsFrom(t, p, words, k) ==
    IF ~MatchLit(t, p, words[k]) THEN 0
    ELSE LET e == p + Len(words[k])
         IN  IF k = Len(words) THEN e
             ELSE LET n == SkipSpaces(t, e)
                  IN  IF n = e THEN 0 ELSE MatchWordsFrom(t, n, words, k + 1)
\* \bwords\b at p
MatchPhrase(t, p, words) ==
    IF ~WordBoundary(t, p) THEN 0
    ELSE LET e == MatchWordsFrom(t, p, words, 1)
         IN  IF e # 0 /\ WordBoundary(t, e) THEN e ELSE 0
\* the first alternative of alts (in order) that matches at p
RECURSIVE MatchAlts(_, _, _, _)
MatchAlts(t, p, alts, a) ==
    IF a > Len(alts) THEN 0
    ELSE LET e == MatchPhrase(t, p, alts[a])
         IN  IF e # 0 THEN e ELSE MatchAlts(t, p, alts, a + 1)

(***************************************************************************)
(* formatter.js: COMMANDS and Pass A                                       *)
(***************************************************************************)
W_new == <<"n","e","w">>
W_paragraph == <<"p","a","r","a","g","r","a","p","h">>
W_line == <<"l","i","n","e">>
W_next == <<"n","e","x","t">>
W_point == <<"p","o","i","n","t">>
W_bullet == <<"b","u","l","l","e","t">>
W_one == <<"o","n","e">>
W_two == <<"t","w","o">>
W_comma == <<"c","o","m","m","a">>
W_period == <<"p","e","r","i","o","d">>
W_full == <<"f","u","l","l">>
W_stop == <<"s","t","o","p">>

\* each pattern is \b(alt1|alt2|...)\b with flags gi, an alternative being
\* words separated by \s+
COMMANDS == <<
    [alts |-> << <<W_new, W_paragraph>> >>,           replacement |-> <<NL, NL>>],
    [alts |-> << <<W_new, W_line>> >>,                replacement |-> <<NL>>],
    [alts |-> << <<W_next, W_line>> >>,               replacement |-> <<NL>>],
    [alts |-> << <<W_next, W_point>> >>,              replacement |-> <<NL, BULLET>>],
    [alts |-> << <<W_bullet>> >>,                     replacement |-> <<BULLET>>],
    [alts |-> << <<W_point, W_one>>, <<W_point, <<"1">> >> >>, replacement |-> <<NL, "1", ".">>],
    [alts |-> << <<W_point, W_two>>, <<W_point, <<"2">> >> >>, replacement |-> <<NL, "2", ".">>],
    [alts |-> << <<W_comma>> >>,                      replacement |-> <<",">>],
    [alts |-> << <<W_period>>, <<W_full, W_stop>> >>, replacement |-> <<".">>] >>

\* text.replace(cmd.pattern, cmd.replacement): leftmost matches, left to right
RECURSIVE ReplaceFrom(_, _, _)
ReplaceFrom(t, p, cmd) ==
    IF p > Len(t) THEN <<>>
    ELSE LET e == MatchAlts(t, p, cmd.alts, 1)
         IN  IF e # 0 THEN cmd.replacement \o ReplaceFrom(t, e, cmd)
             ELSE <<t[p]>> \o ReplaceFrom(t, p + 1, cmd)

\* for (const cmd of COMMANDS) text = text.replace(...), from rule k on
RECURSIVE ApplyCommandsFrom(_, _)
ApplyCommandsFrom(t, k) ==
    IF k > Len(COMMANDS) THEN t
    ELSE ApplyCommandsFrom(ReplaceFrom(t, 1, COMMANDS[k]), k + 1)
applyCommands(t) == ApplyCommandsFrom(t, 1)

(***************************************************************************)
(* formatter.js: Pass B, applySentenceCasing                               *)
(***************************************************************************)
\* res.replace(/(X\s*)([a-z])/g, sep + char.toUpperCase()) where X is [.?!]
\* (triggers = {".", "?", "!"}) or \n+ (triggers = {NL})
RECURSIVE CapitalizeAfter(_, _, _)
CapitalizeAfter(t, p, triggers) ==
    IF p > Len(t) THEN <<>>
    ELSE IF t[p] \in triggers
         THEN LET n == SkipSpaces(t, p + 1)
              IN  IF InText(t, n) /\ t[n] \in LowerSet
                  THEN SubSeq(t, p, n - 1) \o <<ToUpper(t[n])>> \o CapitalizeAfter(t, n + 1, triggers)
                  ELSE <<t[p]>> \o CapitalizeAfter(t, p + 1, triggers)
         ELSE <<t[p]>> \o CapitalizeAfter(t, p + 1, triggers)

applySentenceCasing(text) ==
    IF text = <<>> THEN <<>>
    ELSE LET res1 == <<ToUpper(text[1])>> \o Tail(text)
             res2 == CapitalizeAfter(res1, 1, {".", "?", "!"})
         IN  CapitalizeAfter(res2, 1, {NL})

(***************************************************************************)
(* formatter.js: Pass C, applyLengthBreaks                                 *)
(* Indices i, scanStart, lastSpaceIndex, chunkStartIndex are the code's    *)
(* 0-based indices; the character at index i is t[i + 1].                  *)
(***************************************************************************)
LIMIT == 140

\* scanStart after an insertion, never advanced
ResumeScanAt_same(lastSpaceIndex, oldScanStart) == oldScanStart

\* scanStart = lastSpaceIndex + 1
ResumeScanAt(lastSpaceIndex, oldScanStart) == lastSpaceIndex + 1

\* before + '. ' + after.charAt(0).toUpperCase() + after.slice(1)
InsertBreak(t, lastSpaceIndex) ==
    LET before == SubSeq(t, 1, lastSpaceIndex)
        after == SubSeq(t, lastSpaceIndex + 2, Len(t))
    IN  before \o <<".", SP>>
          \o (IF after = <<>> THEN <<>> ELSE <<ToUpper(after[1])>> \o Tail(after))

\* the locals when applyLengthBreaks(text) is entered (lines 87-89)
LBEntry(text) ==
    [newText |-> text, scanStart |-> 0, changed |-> FALSE, counter |-> 0,
     lastSpaceIndex |-> -1, chunkStartIndex |-> 0, i |-> 0, pc |-> "while"]

\* lines 95-98 and the for initialiser: one iteration of while (true) begins
LBBeginIteration(l) ==
    [l EXCEPT !.changed = FALSE, !.counter = 0, !.lastSpaceIndex = -1,
              !.chunkStartIndex = l.scanStart, !.i = l.scanStart, !.pc = "for"]

\* lines 102-116: what the body does to the locals before the limit test
LBCount(l) ==
    LET char == l.newText[l.i + 1]
    IN  IF char \in {".", "?", "!", NL}
        THEN [l EXCEPT !.counter = 0, !.lastSpaceIndex = -1,
                       !.chunkStartIndex = l.i + 1,
                       !.scanStart = IF l.changed THEN l.scanStart ELSE l.i + 1]
        ELSE [l EXCEPT !.counter = l.counter + 1,
                       !.lastSpaceIndex = IF char = SP THEN l.i ELSE l.lastSpaceIndex]

\* line 118-120: the body reaches the insertion
LBBreaksHere(l) ==
    LET c == LBCount(l)
    IN  /\ c.counter > LIMIT
        /\ c.lastSpaceIndex # -1 /\ c.lastSpaceIndex > c.chunkStartIndex

\* lines 101-139: one run of the for body at index i, i < newText.length
LBBody(l) ==
    LET c == LBCount(l)
    IN  IF c.counter > LIMIT
        THEN IF c.lastSpaceIndex # -1 /\ c.lastSpaceIndex > c.chunkStartIndex
             THEN [c EXCEPT !.newText = InsertBreak(c.newText, c.lastSpaceIndex),
                            !.changed = TRUE,
                            !.scanStart = ResumeScanAt(c.lastSpaceIndex, c.scanStart),
                            !.pc = "after"]
             ELSE [c EXCEPT !.counter = 0, !.i = c.i + 1]
        ELSE [c EXCEPT !.i = c.i + 1]

\* one step of applyLengthBreaks from the locals l
LBStep(l) ==
    CASE l.pc = "while" -> LBBeginIteration(l)
      [] l.pc = "for" -> IF l.i < Len(l.newText) THEN LBBody(l) ELSE [l EXCEPT !.pc = "after"]
      [] l.pc = "after" -> IF l.changed THEN [l EXCEPT !.pc = "while"] ELSE [l EXCEPT !.pc = "return"]
      [] OTHER -> l

RECURSIVE LBRun(_)
LBRun(l) == IF l.pc = "return" THEN l.newText ELSE LBRun(LBStep(l))
applyLengthBreaks(text) == LBRun(LBEntry(text))

(***************************************************************************)
(* formatter.js: Pass D, applyParagraphHeuristics                          *)
(***************************************************************************)
keywords == << <<"o","k","a","y">>, <<"s","o">>, <<"n","e","x","t">>,
               <<"m","o","v","i","n","g",SP,"o","n">>, <<"n","o","w">> >>

\* (Okay|So|Next|Moving on|Now)\b at p, flag i: position after the match, or 0
RECURSIVE MatchKeyword(_, _, _)
MatchKeyword(t, p, k) ==
    IF k > Len(keywords) THEN 0
    ELSE IF MatchLit(t, p, keywords[k]) /\ WordBoundary(t, p + Len(keywords[k]))
         THEN p + Len(keywords[k])
         ELSE MatchKeyword(t, p, k + 1)

\* word.charAt(0).toUpperCase() + word.slice(1).toLowerCase()
Capitalized(word) == <<ToUpper(word[1])>> \o toLowerCase(Tail(word))

\* text.replace(pattern, callback) from position p; the three alternatives
\* of group 1 are tried in order: [.?!]\s+ , ^ , \n+
RECURSIVE ParagraphsFrom(_, _)
ParagraphsFrom(t, p) ==
    IF p > Len(t) THEN <<>>
    ELSE LET n1 == SkipSpaces(t, p + 1)
             e1 == IF t[p] \in {".", "?", "!"} /\ n1 > p + 1 THEN MatchKeyword(t, n1, 1) ELSE 0
             e2 == IF p = 1 THEN MatchKeyword(t, p, 1) ELSE 0
             n3 == SkipNewlines(t, p)
             e3 == IF t[p] = NL THEN MatchKeyword(t, n3, 1) ELSE 0
         IN  IF e1 # 0
             THEN <<t[p], NL, NL>> \o Capitalized(SubSeq(t, n1, e1 - 1)) \o ParagraphsFrom(t, e1)
             ELSE IF e2 # 0 THEN SubSeq(t, p, e2 - 1) \o ParagraphsFrom(t, e2)
             ELSE IF e3 # 0 THEN SubSeq(t, p, e3 - 1) \o ParagraphsFrom(t, e3)
             ELSE <<t[p]>> \o ParagraphsFrom(t, p + 1)
applyParagraphHeuristics(text) == ParagraphsFrom(text, 1)

(***************************************************************************)
(* formatter.js: Pass E, applyCleanup                                      *)
(***************************************************************************)
\* first position >= p that holds neither a space nor a tab
RECURSIVE SkipBlanks(_, _)
SkipBlanks(t, p) == IF InText(t, p) /\ t[p] \in {SP, TAB} THEN SkipBlanks(t, p + 1) ELSE p

\* res.replace(/[ \t]{2,}/g, ' ')
RECURSIVE CollapseBlanksFrom(_, _)
CollapseBlanksFrom(t, p) ==
    IF p > Len(t) THEN <<>>
    ELSE LET n == SkipBlanks(t, p)
         IN  IF n - p >= 2 THEN <<SP>> \o CollapseBlanksFrom(t, n)
             ELSE <<t[p]>> \o CollapseBlanksFrom(t, p + 1)

\* lines.join('\n')
RECURSIVE join(_, _)
join(lines, sep) ==
    IF lines = <<>> THEN <<>>
    ELSE IF Len(lines) = 1 THEN lines[1]
    ELSE lines[1] \o <<sep>> \o join(Tail(lines), sep)

\* res.split('\n').map(line => line.trim()).join('\n')
TrimLines(t) ==
    LET lines == split(t, NL)
    IN  join([k \in 1..Len(lines) |-> trim(lines[k])], NL)

\* removal of every line that begins with the bullet marker: /^U+2022.*$/gm
RECURSIVE RemoveBareBulletsFrom_anyLine(_, _)
RemoveBareBulletsFrom_anyLine(t, p) ==
    IF p > Len(t) THEN <<>>
    ELSE IF (p = 1 \/ t[p - 1] \in LineTerminators) /\ t[p] = BULLET
         THEN RemoveBareBulletsFrom_anyLine(t,
                  CHOOSE e \in (p + 1)..(Len(t) + 1) :
                      /\ e = Len(t) + 1 \/ t[e] \in LineTerminators
                      /\ \A f \in (p + 1)..(e - 1) : t[f] \notin LineTerminators)
         ELSE <<t[p]>> \o RemoveBareBulletsFrom_anyLine(t, p + 1)

\* res.replace(/^U+2022\s*$/gm, ''): ^ and $ match at line breaks, \s* is
\* greedy and gives characters back until $ matches
RECURSIVE RemoveBareBulletsFrom(_, _)
RemoveBareBulletsFrom(t, p) ==
    IF p > Len(t) THEN <<>>
    ELSE LET k == SkipSpaces(t, p + 1)
             ends == {e \in (p + 1)..k : e = Len(t) + 1 \/ t[e] \in LineTerminators}
             lineStart == p = 1 \/ t[p - 1] \in LineTerminators
         IN  IF lineStart /\ t[p] = BULLET /\ ends # {}
             THEN RemoveBareBulletsFrom(t, CHOOSE e \in ends : \A f \in ends : f <= e)
             ELSE <<t[p]>> \o RemoveBareBulletsFrom(t, p + 1)

\* res.replace(/\n{3,}/g, '\n\n')
RECURSIVE CollapseNewlinesFrom(_, _)
CollapseNewlinesFrom(t, p) ==
    IF p > Len(t) THEN <<>>
    ELSE LET n == SkipNewlines(t, p)
         IN  IF n - p >= 3 THEN <<NL, NL>> \o CollapseNewlinesFrom(t, n)
             ELSE <<t[p]>> \o CollapseNewlinesFrom(t, p + 1)

applyCleanup(text) ==
    trim(CollapseNewlinesFrom(
           RemoveBareBulletsFrom(TrimLines(CollapseBlanksFrom(text, 1)), 1), 1))

(***************************************************************************)
(* formatter.js: format                                                    *)
(***************************************************************************)
\* JavaScript values passed to format
JSString(chars) == [type |-> "string", num |-> "", chars |-> chars]
JSOther(type, num) == [type |-> type, num |-> num, chars |-> <<>>]
\* ToBoolean
Truthy(v) ==
    CASE v.type = "string" -> v.chars # <<>>
      [] v.type = "number" -> v.num \notin {"0", "NaN"}
      [] v.type \in {"undefined", "null"} -> FALSE
      [] OTHER -> TRUE

\* the guard without its typeof test: if (!rawText)
ReturnsEmptyEarly_noTypeof(v) == ~Truthy(v)

\* if (!rawText || typeof rawText !== 'string') return ''
ReturnsEmptyEarly(v) == ~Truthy(v) \/ v.type # "string"

\* format(rawText) for a string argument: the guard, then passes A to E
format(text) ==
    IF ReturnsEmptyEarly(JSString(text)) THEN <<>>
    ELSE applyCleanup(applyParagraphHeuristics(applyLengthBreaks(
             applySentenceCasing(applyCommands(text)))))

(***************************************************************************)
(* Loose content check: src/structureJudge.js                              *)
(***************************************************************************)
\* String.prototype.split(/\s+/): 'a  b' gives ['a', 'b'], '' gives ['']
RECURSIVE splitWhitespace(_)
splitWhitespace(s) ==
    IF \E k \in 1..Len(s) : IsSpace(s[k])
    THEN LET k == CHOOSE k \in 1..Len(s) : IsSpace(s[k]) /\ \A j \in 1..(k - 1) : ~IsSpace(s[j])
         IN  <<SubSeq(s, 1, k - 1)>> \o splitWhitespace(SubSeq(s, SkipSpaces(s, k), Len(s)))
    ELSE <<s>>

getWordCount(text) ==
    IF text = <<>> THEN 0 ELSE Len(splitWhitespace(trim(text)))

Abs(n) == IF n < 0 THEN -n ELSE n
Max(a, b) == IF a >= b THEN a ELSE b

\* ratio = diff / Math.max(rawCount, 1); ratio > 0.4 is 5 * diff > 2 * max:
\* the quotient of two small integers is 2/5 or further from it than rounding
safetyCheck(raw, refined) ==
    LET rawCount == getWordCount(raw)
        refinedCount == getWordCount(refined)
        diff == Abs(rawCount - refinedCount)
    IN  IF refinedCount = 0 /\ rawCount > 0 THEN FALSE
        ELSE IF 5 * diff > 2 * Max(rawCount, 1) THEN FALSE
        ELSE TRUE

(***************************************************************************)
(* logger: src/unnamed/part_003                                            *)
(***************************************************************************)
\* module.exports = { init, log, error }
LoggerExports == {"init", "log", "error"}
\* logger.<method>(...): log and error return (log swallows what appendFileSync
\* throws); a property that is not exported is undefined, and calling it
\* throws a TypeError
LoggerCall(method) == IF method \in LoggerExports THEN "returns" ELSE "throws"

(***************************************************************************)
(* States in which a part of the program is not running                    *)
(***************************************************************************)
NoCompletion == [threw |-> FALSE, value |-> <<>>]
Pending == [state |-> "pending", value |-> <<>>, error |-> ""]
Resolved(v) == [state |-> "resolved", value |-> v, error |-> ""]
Rejected(e) == [state |-> "rejected", value |-> <<>>, error |-> e]
NoBody == [kind |-> "none", chars |-> <<>>]

ValIdle ==
    /\ valRaw = <<>> /\ valStruct = <<>> /\ valMode = "none"
    /\ valDeleted = <<>> /\ valResult = FALSE
FmtIdle ==
    /\ fmtArg = [type |-> "undefined"] /\ fmtPc = "idle" /\ fmtText = <<>>
    /\ fmtRet = NoCompletion /\ fmtRun = 0 /\ fmtFirst = <<>> /\ fmtInput = <<>>
LBIdle ==
    /\ lbInput = <<>>
    /\ lb = [LBEntry(<<>>) EXCEPT !.pc = "idle"]
    /\ lbIter = [scanStart |-> 0, length |-> 0, begun |-> 0]
JudgeIdle ==
    /\ variant = "none" /\ rawText = <<>> /\ softCandidates = <<>> /\ pc = "idle"
    /\ req = "none" /\ resStatus = 0 /\ resBody = NoBody /\ idleMs = 0
    /\ promise = Pending /\ settleCount = 0 /\ result = <<>>
    /\ validated = "none" /\ improved = Pending

\* the ChildProcess objects start() can create in one run of the model
MaxProcs == 3
ProcIds == 1..MaxProcs
SrvIdle ==
    /\ serverProcess = 0 /\ isStarting = FALSE
    /\ procs = [p \in ProcIds |-> "unborn"]
    /\ pendingEvent = [p \in ProcIds |-> "none"]
    /\ health = [p \in ProcIds |-> "off"]

\* the ChildProcess objects transcribe() can create in one run of the model
MaxWhisper == 3
WhisperIds == 1..MaxWhisper
WhisperIdle ==
    /\ whisperProcs = [p \in WhisperIds |-> "unborn"]
    /\ currentProcess = 0
    /\ whisperOp = "none"

\* the rows the table can receive in one run of the model
MaxTranscripts == 3
TranscriptIds == 1..MaxTranscripts
NoRow == [status |-> "none", raw_text |-> <<>>, final_text |-> <<>>]
NoStoreOp == [op |-> "none", id |-> 0, threw |-> FALSE]
StoreIdle ==
    /\ transcripts = [id \in TranscriptIds |-> NoRow]
    /\ lastInsertRowid = 0
    /\ storeOp = NoStoreOp
    /\ storeBefore = [id \in TranscriptIds |-> NoRow]

\* the runs of the 'audio:stop' handler in one run of the model
MaxStops == 2
StopIds == 1..MaxStops
NoStop == [pc |-> "free", path |-> "none", sent |-> 0]
PillIdle ==
    /\ isCtrlPressed = FALSE /\ isSpacePressed = FALSE /\ isRecording = FALSE
    /\ keyEvents = 0 /\ hotkeyLog = <<>>
    /\ toPill = <<>> /\ toMain = <<>>
    /\ currentStateIndex = 0 /\ recordingDelayTimer = FALSE /\ isRecordingActive = FALSE
    /\ pillHeld = FALSE
    /\ recording = FALSE /\ stopRuns = [h \in StopIds |-> NoStop]

HealthIdle == attempts = 0 /\ healthRequests = 0 /\ onReadyCalls = 0

AppIdle == WhisperIdle /\ StoreIdle /\ PillIdle /\ HealthIdle

(***************************************************************************)
(* validateContent applied to bounded pairs of texts                       *)
(***************************************************************************)
MaxValLen == 3
ValAlphabet == {"a", "A", ".", SP}
ValTexts == UNION {[1..n -> ValAlphabet] : n \in 0..MaxValLen}
ExtraWord == <<SP, "e", "x", "t", "r", "a", SP, "w", "o", "r", "d">>

\* s with its k-th whitespace-delimited word deleted
DeleteToken(s, k) ==
    LET sp == TokenSpans(s)[k]
    IN  SubSeq(s, 1, sp[1] - 1) \o SubSeq(s, sp[2] + 1, Len(s))

InitValidate ==
    /\ valRaw \in ValTexts
    /\ valStruct = <<>> /\ valMode = "none" /\ valDeleted = <<>> /\ valResult = FALSE
    /\ FmtIdle /\ LBIdle /\ JudgeIdle /\ SrvIdle /\ AppIdle

ValidatePair ==
    /\ valMode = "none"
    /\ \E s \in ValTexts :
         /\ valStruct' = s
         /\ valResult' = validateContent(valRaw, s)
    /\ valMode' = "pair"
    /\ UNCHANGED <<valRaw, valDeleted, varsFmt, varsLB, varsJudge, varsSrv, varsApp>>

ValidateDeleted ==
    /\ valMode = "none"
    /\ \E k \in 1..Len(TokenSpans(valRaw)) :
         /\ valDeleted' = Tokens(valRaw)[k]
         /\ valStruct' = DeleteToken(valRaw, k)
         /\ valResult' = validateContent(valRaw, DeleteToken(valRaw, k))
    /\ valMode' = "deleted"
    /\ UNCHANGED <<valRaw, varsFmt, varsLB, varsJudge, varsSrv, varsApp>>

ValidateExtra ==
    /\ valMode = "none"
    /\ valStruct' = valRaw \o ExtraWord
    /\ valResult' = validateContent(valRaw, valRaw \o ExtraWord)
    /\ valMode' = "extra"
    /\ UNCHANGED <<valRaw, valDeleted, varsFmt, varsLB, varsJudge, varsSrv, varsApp>>

NextValidate == ValidatePair \/ ValidateDeleted \/ ValidateExtra
SpecValidate == InitValidate /\ [][NextValidate]_vars

\* C4: validateContent(raw, structured) is true if and only if the two texts
\* yield the same word sequence (lower-cased, non-alphanumerics deleted,
\* split at whitespace), for all pairs including empty and punctuation-only ones.
C4_AcceptsIffSameWordSequence ==
    valMode = "pair" => (valResult <=> (WordSeq(valRaw) = WordSeq(valStruct)))

IsPunctuation(c) == ~IsAlnum(c) /\ ~IsSpace(c) /\ c \notin {E_ACUTE, E_ACUTE_CAPITAL}
\* s is raw with the case of letters changed and punctuation characters added
RECURSIVE AddsOnlyCaseAndPunctuation(_, _)
AddsOnlyCaseAndPunctuation(raw, s) ==
    IF s = <<>> THEN raw = <<>>
    ELSE \/ /\ raw # <<>> /\ ToLower(Head(raw)) = ToLower(Head(s))
            /\ AddsOnlyCaseAndPunctuation(Tail(raw), Tail(s))
         \/ /\ IsPunctuation(Head(s))
            /\ AddsOnlyCaseAndPunctuation(raw, Tail(s))

\* C19: validateContent(raw, s) accepts whenever s differs from raw only in
\* letter case and in added punctuation characters, s = raw included, for
\* every raw text, the empty one included.
C19_AcceptsAddedCaseAndPunctuation ==
    (valMode = "pair" /\ AddsOnlyCaseAndPunctuation(valRaw, valStruct)) => valResult

(***************************************************************************)
(* safetyCheck applied to bounded pairs of texts of up to MaxSafetyWords   *)
(* words                                                                   *)
(***************************************************************************)
MaxSafetyWords == 15
Blanks == {<<>>, <<SP>>, <<SP, NL>>}
\* n one-letter words separated by one space
RECURSIVE WordsText(_)
WordsText(n) ==
    IF n = 0 THEN <<>> ELSE IF n = 1 THEN <<"a">> ELSE WordsText(n - 1) \o <<SP, "a">>
SafetyTexts ==
    {lead \o WordsText(n) \o trail : lead \in Blanks, trail \in Blanks, n \in 0..MaxSafetyWords}

InitSafety ==
    /\ valRaw \in SafetyTexts
    /\ valStruct = <<>> /\ valMode = "none" /\ valDeleted = <<>> /\ valResult = FALSE
    /\ FmtIdle /\ LBIdle /\ JudgeIdle /\ SrvIdle /\ AppIdle

SafetyCheckPair ==
    /\ valMode = "none"
    /\ \E s \in SafetyTexts :
         /\ valStruct' = s
         /\ valResult' = safetyCheck(valRaw, s)
    /\ valMode' = "safety"
    /\ UNCHANGED <<valRaw, valDeleted, varsFmt, varsLB, varsJudge, varsSrv, varsApp>>
SpecSafety == InitSafety /\ [][SafetyCheckPair]_vars

\* the number of whitespace-delimited tokens of a text
TokenCount(s) == Len(Tokens(s))

\* C22: safetyCheck(raw, refined) is false exactly when refined has no token
\* while raw has one, or 5 * |rawCount - refinedCount| > 2 * max(rawCount, 1),
\* the counts being the numbers of whitespace-delimited tokens.
C22_LooseWordCountCheck ==
    valMode = "safety" =>
        LET rawCount == TokenCount(valRaw)
            refinedCount == TokenCount(valStruct)
        IN  (~valResult) = \/ refinedCount = 0 /\ rawCount > 0
                           \/ 5 * Abs(rawCount - refinedCount) > 2 * Max(rawCount, 1)

(***************************************************************************)
(* format(x) and format(format(x)) on bounded arguments                    *)
(***************************************************************************)
MaxFmtWords == 3
W_so == <<"s","o">>
FmtVocab == {W_new, W_line, W_next, W_point, W_one, W_period, W_so}
FmtWordLists == UNION {[1..n -> FmtVocab] : n \in 0..MaxFmtWords}
\* the argument strings: words separated by one space, with or without the
\* leading space Whisper puts before its output
FmtStrings ==
    {lead \o join(ws, SP) : lead \in {<<>>, <<SP>>}, ws \in FmtWordLists}
FmtNonStrings ==
    {JSOther("undefined", ""), JSOther("null", ""), JSOther("number", "0"),
     JSOther("number", "1"), JSOther("number", "NaN"), JSOther("object", ""),
     JSOther("array", ""), JSOther("boolean", "true"), JSOther("boolean", "false")}
FmtArgs == FmtNonStrings \cup {JSString(x) : x \in FmtStrings}

InitFormat ==
    /\ fmtArg \in FmtArgs
    /\ fmtPc = "call" /\ fmtText = <<>> /\ fmtRet = NoCompletion
    /\ fmtRun = 1 /\ fmtFirst = <<>> /\ fmtInput = fmtArg.chars
    /\ ValIdle /\ LBIdle /\ JudgeIdle /\ SrvIdle /\ AppIdle

\* lines 36-40: the guard, then let text = rawText
FormatEnter ==
    /\ fmtPc = "call"
    /\ IF ReturnsEmptyEarly(fmtArg)
       THEN /\ fmtRet' = [threw |-> FALSE, value |-> <<>>]
            /\ fmtPc' = "done"
            /\ UNCHANGED fmtText
       ELSE /\ fmtText' = fmtArg.chars
            /\ fmtPc' = "A"
            /\ UNCHANGED fmtRet
    /\ UNCHANGED <<fmtArg, fmtRun, fmtFirst, fmtInput, varsVal, varsLB, varsJudge, varsSrv, varsApp>>

\* lines 44-46; text.replace is not a function unless text is a string
FormatPassA ==
    /\ fmtPc = "A"
    /\ IF fmtArg.type # "string"
       THEN /\ fmtRet' = [threw |-> TRUE, value |-> <<>>]
            /\ fmtPc' = "done"
            /\ UNCHANGED fmtText
       ELSE /\ fmtText' = applyCommands(fmtText)
            /\ fmtPc' = "B"
            /\ UNCHANGED fmtRet
    /\ UNCHANGED <<fmtArg, fmtRun, fmtFirst, fmtInput, varsVal, varsLB, varsJudge, varsSrv, varsApp>>

FormatPassB ==
    /\ fmtPc = "B"
    /\ fmtText' = applySentenceCasing(fmtText)
    /\ fmtPc' = "C"
    /\ UNCHANGED <<fmtArg, fmtRet, fmtRun, fmtFirst, fmtInput, varsVal, varsLB, varsJudge, varsSrv, varsApp>>

FormatPassC ==
    /\ fmtPc = "C"
    /\ fmtText' = applyLengthBreaks(fmtText)
    /\ fmtPc' = "D"
    /\ UNCHANGED <<fmtArg, fmtRet, fmtRun, fmtFirst, fmtInput, varsVal, varsLB, varsJudge, varsSrv, varsApp>>

FormatPassD ==
    /\ fmtPc = "D"
    /\ fmtText' = applyParagraphHeuristics(fmtText)
    /\ fmtPc' = "E"
    /\ UNCHANGED <<fmtArg, fmtRet, fmtRun, fmtFirst, fmtInput, varsVal, varsLB, varsJudge, varsSrv, varsApp>>

\* lines 62-64: cleanup and return
FormatPassE ==
    /\ fmtPc = "E"
    /\ fmtText' = applyCleanup(fmtText)
    /\ fmtRet' = [threw |-> FALSE, value |-> applyCleanup(fmtText)]
    /\ fmtPc' = "done"
    /\ UNCHANGED <<fmtArg, fmtRun, fmtFirst, fmtInput, varsVal, varsLB, varsJudge, varsSrv, varsApp>>

\* the caller passes the returned string to format again
FormatAgain ==
    /\ fmtPc = "done" /\ fmtRun = 1
    /\ fmtArg.type = "string" /\ ~fmtRet.threw
    /\ fmtFirst' = fmtRet.value
    /\ fmtArg' = JSString(fmtRet.value)
    /\ fmtRun' = 2
    /\ fmtPc' = "call" /\ fmtText' = <<>> /\ fmtRet' = NoCompletion
    /\ UNCHANGED <<fmtInput, varsVal, varsLB, varsJudge, varsSrv, varsApp>>

NextFormat ==
    \/ FormatEnter \/ FormatPassA \/ FormatPassB \/ FormatPassC
    \/ FormatPassD \/ FormatPassE \/ FormatAgain
SpecFormat == InitFormat /\ [][NextFormat]_vars

\* the positions of x that lie inside a match of a COMMANDS pattern in x
InCommandPhrase(x, p) ==
    \E q \in 1..p : \E k \in 1..Len(COMMANDS) :
        LET e == MatchAlts(x, q, COMMANDS[k].alts, 1) IN e # 0 /\ p < e
\* the words of x that are not part of a recognized phrase of x
WordsOutsideCommands(x) ==
    WordSeq([p \in 1..Len(x) |-> IF InCommandPhrase(x, p) THEN SP ELSE x[p]])

\* C6: format(format(x)) = format(x) for every string x.
C6_FormatIdempotent ==
    (fmtPc = "done" /\ fmtRun = 2) => fmtRet.value = fmtFirst

SomeCommandMatches(t) ==
    \E k \in 1..Len(COMMANDS) : \E p \in 1..Len(t) : MatchAlts(t, p, COMMANDS[k].alts, 1) # 0

\* C18: after Pass A has applied its rules once each in list order, no
\* pattern of COMMANDS matches the text.
C18_NoCommandLeftAfterPassA ==
    (fmtPc = "B" /\ fmtRun = 1) => ~SomeCommandMatches(fmtText)

\* C23: in the text format returns, the first letter after a bullet marker
\* that the command 'next point' produced is upper-case, and so is the first
\* letter after the period of a 'period' command.
C23_ListItemsCapitalized ==
    (fmtPc = "done" /\ fmtRun = 1 /\ fmtArg.type = "string")
        => \A p \in 1..Len(fmtRet.value) :
              fmtRet.value[p] \in {BULLET, "."} =>
                  LET n == SkipSpaces(fmtRet.value, p + 1)
                  IN  InText(fmtRet.value, n) => fmtRet.value[n] \notin LowerSet

\* C10: format returns the empty string for the empty string and for every
\* argument that is not a string, and no call of format throws.
C10_DegenerateInputGivesEmpty ==
    /\ ~fmtRet.threw
    /\ (fmtPc = "done" /\ (fmtArg.type # "string" \/ fmtArg.chars = <<>>))
          => fmtRet.value = <<>>

C10_Witness ==
    /\ fmtPc = "done" /\ fmtRun = 1
    /\ fmtArg.type = "number" /\ Truthy(fmtArg)
    /\ fmtRet = [threw |-> FALSE, value |-> <<>>]

\* The punctuation marks whose spacing Pass E is described as normalizing
SpacedPunctuation == {",", ".", "?", "!"}
IsLetter(c) == c \in LowerSet \cup UpperSet

\* C11: in the text format returns there is no space immediately before one
\* of , . ? ! and none of them is directly followed by a letter, also when
\* the punctuation came from a spoken command.
C11_PunctuationSpacing ==
    (fmtPc = "done" /\ fmtRun = 1 /\ fmtArg.type = "string")
        => \A p \in 1..(Len(fmtRet.value) - 1) :
              /\ ~(fmtRet.value[p] = SP /\ fmtRet.value[p + 1] \in SpacedPunctuation)
              /\ ~(fmtRet.value[p] \in SpacedPunctuation /\ IsLetter(fmtRet.value[p + 1]))

(***************************************************************************)
(* applyCleanup applied to bounded texts of blanks, line breaks, bullets   *)
(***************************************************************************)
MaxCleanLen == 5
CleanAlphabet == {"a", SP, TAB, NL, CR, BULLET}
CleanTexts == UNION {[1..n -> CleanAlphabet] : n \in 0..MaxCleanLen}

InitCleanup ==
    /\ fmtText \in CleanTexts
    /\ fmtArg = JSString(fmtText) /\ fmtInput = fmtText
    /\ fmtPc = "E" /\ fmtRet = NoCompletion /\ fmtRun = 1 /\ fmtFirst = <<>>
    /\ ValIdle /\ LBIdle /\ JudgeIdle /\ SrvIdle /\ AppIdle
SpecCleanup == InitCleanup /\ [][FormatPassE]_vars

\* the lines of a text, as applyCleanup splits them
Lines(t) == split(t, NL)

\* C12: the output of applyCleanup has no run of two or more spaces/tabs, no
\* line with leading or trailing whitespace, no line that is only a bare
\* bullet marker, no run of three or more newlines, and no leading or
\* trailing whitespace overall.
C12_CleanupPostconditions ==
    fmtPc = "done" =>
        LET out == fmtRet.value IN
        /\ \A p \in 1..(Len(out) - 1) : ~(out[p] \in {SP, TAB} /\ out[p + 1] \in {SP, TAB})
        /\ \A k \in 1..Len(Lines(out)) :
              /\ trim(Lines(out)[k]) = Lines(out)[k]
              /\ Lines(out)[k] # <<BULLET>>
        /\ \A p \in 1..(Len(out) - 2) : ~(out[p] = NL /\ out[p + 1] = NL /\ out[p + 2] = NL)
        /\ trim(out) = out

(***************************************************************************)
(* applySentenceCasing applied to bounded texts                            *)
(***************************************************************************)
MaxCasingLen == 4
CasingAlphabet == {"a", "B", E_ACUTE, ".", "1", NL, SP}
CasingTexts == UNION {[1..n -> CasingAlphabet] : n \in 0..MaxCasingLen}

InitCasing ==
    /\ fmtText \in CasingTexts
    /\ fmtArg = JSString(fmtText) /\ fmtInput = fmtText
    /\ fmtPc = "B" /\ fmtRet = NoCompletion /\ fmtRun = 1 /\ fmtFirst = <<>>
    /\ ValIdle /\ LBIdle /\ JudgeIdle /\ SrvIdle /\ AppIdle
SpecCasing == InitCasing /\ [][FormatPassB]_vars

\* the lower-case letters, those toUpperCase changes
IsLowerCaseLetter(c) == ToUpper(c) # c
\* position p of t is a sentence start: the first character of the text, or
\* preceded by one of . ? ! or by a newline, with only whitespace in between
SentenceStart(t, p) ==
    \/ p = 1
    \/ \E q \in 1..(p - 1) :
          /\ t[q] \in {".", "?", "!", NL}
          /\ \A r \in (q + 1)..(p - 1) : IsSpace(t[r])

\* C13: applySentenceCasing upper-cases every lower-case letter that stands
\* at a sentence start (first character, after . ? ! and optional
\* whitespace, after newlines and optional whitespace), alters no other
\* character, and maps its own output to itself.
C13_SentenceCasing ==
    fmtPc = "C" =>
        /\ Len(fmtText) = Len(fmtInput)
        /\ \A p \in 1..Len(fmtInput) :
              fmtText[p] = IF SentenceStart(fmtInput, p) /\ IsLowerCaseLetter(fmtInput[p])
                           THEN ToUpper(fmtInput[p]) ELSE fmtInput[p]
        /\ applySentenceCasing(fmtText) = fmtText

(***************************************************************************)
(* Pass A applied to the phrases of the canonical command table            *)
(***************************************************************************)
W_newline == <<"n","e","w","l","i","n","e">>
W_question == <<"q","u","e","s","t","i","o","n">>
W_mark == <<"m","a","r","k">>
W_exclamation == <<"e","x","c","l","a","m","a","t","i","o","n">>

\* the canonical rule set: a spoken phrase and the text that replaces it
CanonicalCommands == {
    [phrase |-> <<W_new, W_paragraph>>,     replacement |-> <<NL, NL>>],
    [phrase |-> <<W_new, W_line>>,          replacement |-> <<NL>>],
    [phrase |-> <<W_next, W_line>>,         replacement |-> <<NL>>],
    [phrase |-> <<W_newline>>,              replacement |-> <<NL>>],
    [phrase |-> <<W_next, W_point>>,        replacement |-> <<NL, BULLET>>],
    [phrase |-> <<W_next, W_bullet>>,       replacement |-> <<NL, BULLET>>],
    [phrase |-> <<W_bullet>>,               replacement |-> <<BULLET>>],
    [phrase |-> <<W_point, W_one>>,         replacement |-> <<NL, "1", ".">>],
    [phrase |-> <<W_point, <<"1">> >>,      replacement |-> <<NL, "1", ".">>],
    [phrase |-> <<W_point, W_two>>,         replacement |-> <<NL, "2", ".">>],
    [phrase |-> <<W_point, <<"2">> >>,      replacement |-> <<NL, "2", ".">>],
    [phrase |-> <<W_comma>>,                replacement |-> <<",">>],
    [phrase |-> <<W_period>>,               replacement |-> <<".">>],
    [phrase |-> <<W_full, W_stop>>,         replacement |-> <<".">>],
    [phrase |-> <<W_question, W_mark>>,     replacement |-> <<"?">>],
    [phrase |-> <<W_exclamation, W_mark>>,  replacement |-> <<"!">>],
    [phrase |-> <<W_exclamation, W_point>>, replacement |-> <<"!">>] }

toUpperCase(s) == [i \in 1..Len(s) |-> ToUpper(s[i])]
\* the ways a phrase is written: lower case, capitalized, upper case
Casings == {"lower", "capitalized", "upper"}
Written(words, casing) ==
    LET t == join(words, SP)
    IN  IF casing = "upper" THEN toUpperCase(t)
        ELSE IF casing = "capitalized" THEN <<ToUpper(t[1])>> \o Tail(t)
        ELSE t
\* what stands before and after the phrase
CommandPrefixes == {<<>>, <<"a", SP>>, <<"a", ".", SP>>, <<"(">>}
CommandSuffixes == {<<>>, <<SP, "a">>, <<".">>}
CommandTexts ==
    {pre \o Written(c.phrase, casing) \o suf :
        pre \in CommandPrefixes, c \in CanonicalCommands,
        casing \in Casings, suf \in CommandSuffixes}

InitCommands ==
    /\ fmtText \in CommandTexts
    /\ fmtArg = JSString(fmtText) /\ fmtInput = fmtText
    /\ fmtPc = "A" /\ fmtRet = NoCompletion /\ fmtRun = 1 /\ fmtFirst = <<>>
    /\ ValIdle /\ LBIdle /\ JudgeIdle /\ SrvIdle /\ AppIdle
SpecCommands == InitCommands /\ [][FormatPassA]_vars

\* C14: Pass A replaces every phrase of the canonical rule set, in any letter
\* case and as a whole word, by its specified replacement.
C14_CanonicalCommandTable ==
    fmtPc = "B" =>
        \A pre \in CommandPrefixes, c \in CanonicalCommands,
           casing \in Casings, suf \in CommandSuffixes :
            fmtInput = pre \o Written(c.phrase, casing) \o suf
                => fmtText = pre \o c.replacement \o suf

(***************************************************************************)
(* applyParagraphHeuristics applied to bounded texts                       *)
(***************************************************************************)
MaxParagraphTokens == 4
ParagraphTokens == { <<".">>, <<SP>>, <<NL>>, <<"a">>, <<"s","o">>, <<"S","O">>,
                     <<"s","o","m","e","o","n","e">>, <<"n","o","w">> }
ParagraphTexts ==
    {Concat(ts) : ts \in UNION {[1..n -> ParagraphTokens] : n \in 0..MaxParagraphTokens}}

InitParagraphs ==
    /\ fmtText \in ParagraphTexts
    /\ fmtArg = JSString(fmtText) /\ fmtInput = fmtText
    /\ fmtPc = "D" /\ fmtRet = NoCompletion /\ fmtRun = 1 /\ fmtFirst = <<>>
    /\ ValIdle /\ LBIdle /\ JudgeIdle /\ SrvIdle /\ AppIdle
SpecParagraphs == InitParagraphs /\ [][FormatPassD]_vars

\* Pass D as described: at a terminator followed by whitespace and then a
\* discourse marker that does not already stand right after a newline, the
\* terminator, two newlines and the capitalized marker; all else unchanged
RECURSIVE DescribedParagraphsFrom(_, _)
DescribedParagraphsFrom(t, p) ==
    IF p > Len(t) THEN <<>>
    ELSE LET n == SkipSpaces(t, p + 1)
             e == IF t[p] \in {".", "?", "!"} /\ n > p + 1 /\ t[n - 1] # NL
                  THEN MatchKeyword(t, n, 1) ELSE 0
         IN  IF e # 0
             THEN <<t[p], NL, NL>> \o Capitalized(SubSeq(t, n, e - 1))
                      \o DescribedParagraphsFrom(t, e)
             ELSE <<t[p]>> \o DescribedParagraphsFrom(t, p + 1)

\* C17: Pass D rewrites only a terminator + whitespace + discourse marker,
\* into terminator + two newlines + capitalized marker; a marker at the
\* start of the text or right after a newline is left unchanged, and the
\* beginning of a longer word is no marker.
C17_ParagraphsOnlyAfterTerminator ==
    fmtPc = "E" => fmtText = DescribedParagraphsFrom(fmtInput, 1)

(***************************************************************************)
(* Pass A applied to texts in which command words touch other characters   *)
(***************************************************************************)
MaxBoundaryTokens == 3
BoundaryTokens == { W_comma, W_period, W_bullet, W_new, W_line, <<"C","o","m","m","a">>,
                    <<"e","r">>, <<"2">>, <<SP>>, <<"-">> }
BoundaryTexts ==
    {Concat(ts) : ts \in UNION {[1..n -> BoundaryTokens] : n \in 0..MaxBoundaryTokens}}

InitBoundaries ==
    /\ fmtText \in BoundaryTexts
    /\ fmtArg = JSString(fmtText) /\ fmtInput = fmtText
    /\ fmtPc = "A" /\ fmtRet = NoCompletion /\ fmtRun = 1 /\ fmtFirst = <<>>
    /\ ValIdle /\ LBIdle /\ JudgeIdle /\ SrvIdle /\ AppIdle
SpecBoundaries == InitBoundaries /\ [][FormatPassA]_vars

\* the ends e of the occurrences at p of a command phrase of rule k, as plain
\* text: letter case ignored, whatever stands before and after
PhraseEndsAt(t, p, k) ==
    {MatchWordsFrom(t, p, COMMANDS[k].alts[a], 1) : a \in 1..Len(COMMANDS[k].alts)} \ {0}
\* the occurrence from p to e - 1 is a proper part of a longer alphanumeric word
InsideLongerWord(t, p, e) ==
    \/ InText(t, p - 1) /\ IsAlnum(t[p - 1])
    \/ InText(t, e) /\ IsAlnum(t[e])
\* command vocabulary occurs in t, and only inside longer words
OnlyInsideLongerWords(t) ==
    /\ \E k \in 1..Len(COMMANDS) : \E p \in 1..Len(t) : PhraseEndsAt(t, p, k) # {}
    /\ \A k \in 1..Len(COMMANDS) : \A p \in 1..Len(t) :
          \A e \in PhraseEndsAt(t, p, k) : InsideLongerWord(t, p, e)

\* C24: Pass A leaves a text unchanged in which command vocabulary occurs
\* only as a proper part of a longer alphanumeric word.
C24_NoReplacementInsideWords ==
    (fmtPc = "B" /\ OnlyInsideLongerWords(fmtInput)) => fmtText = fmtInput

C24_Witness ==
    /\ fmtPc = "B" /\ OnlyInsideLongerWords(fmtInput)
    /\ fmtText = fmtInput
    /\ \E p \in 1..Len(fmtInput) : PhraseEndsAt(fmtInput, p, 8) # {}
    /\ \E p \in 1..Len(fmtInput) : PhraseEndsAt(fmtInput, p, 9) # {}
    /\ \E p \in 1..Len(fmtInput) : fmtInput[p] = SP

(***************************************************************************)
(* applyLengthBreaks, one loop step at a time, on bounded long texts       *)
(***************************************************************************)
MaxPieces == 2
\* a piece is a run of the letter a followed by a space or a period
RunLengths == {0, 70, LIMIT + 1}
Run(n) == [k \in 1..n |-> "a"]
LBPieces == {Run(n) \o <<sep>> : n \in RunLengths, sep \in {SP, "."}}
\* the argument texts: up to MaxPieces pieces, with or without a final run
\* that no separator follows (a single space-free token is Run(LIMIT + 1))
LBTexts ==
    {Concat(ps) \o Run(n) : ps \in UNION {[1..m -> LBPieces] : m \in 0..MaxPieces},
                            n \in {0, LIMIT + 1}}

InitBreaks ==
    /\ lbInput \in LBTexts
    /\ lb = LBEntry(lbInput)
    /\ lbIter = [scanStart |-> 0, length |-> Len(lbInput), begun |-> 0]
    /\ ValIdle /\ FmtIdle /\ JudgeIdle /\ SrvIdle /\ AppIdle

\* while (true) { changed = false; ... for (let i = scanStart; ...
LBBegin ==
    /\ lb.pc = "while"
    /\ lb' = LBStep(lb)
    /\ lbIter' = [scanStart |-> lb.scanStart, length |-> Len(lb.newText),
                  begun |-> lbIter.begun + 1]
    /\ UNCHANGED <<lbInput, varsVal, varsFmt, varsJudge, varsSrv, varsApp>>

\* one run of the for body that does not insert
LBScanChar ==
    /\ lb.pc = "for" /\ lb.i < Len(lb.newText) /\ ~LBBreaksHere(lb)
    /\ lb' = LBStep(lb)
    /\ UNCHANGED <<lbInput, lbIter, varsVal, varsFmt, varsJudge, varsSrv, varsApp>>

\* the run of the for body that inserts '. ' and breaks
LBInsert ==
    /\ lb.pc = "for" /\ lb.i < Len(lb.newText) /\ LBBreaksHere(lb)
    /\ lb' = LBStep(lb)
    /\ UNCHANGED <<lbInput, lbIter, varsVal, varsFmt, varsJudge, varsSrv, varsApp>>

\* i < newText.length fails
LBEndScan ==
    /\ lb.pc = "for" /\ lb.i >= Len(lb.newText)
    /\ lb' = LBStep(lb)
    /\ UNCHANGED <<lbInput, lbIter, varsVal, varsFmt, varsJudge, varsSrv, varsApp>>

\* if (!changed) break; otherwise the while loop runs again
LBRestart ==
    /\ lb.pc = "after" /\ lb.changed
    /\ lb' = LBStep(lb)
    /\ UNCHANGED <<lbInput, lbIter, varsVal, varsFmt, varsJudge, varsSrv, varsApp>>

LBReturn ==
    /\ lb.pc = "after" /\ ~lb.changed
    /\ lb' = LBStep(lb)
    /\ UNCHANGED <<lbInput, lbIter, varsVal, varsFmt, varsJudge, varsSrv, varsApp>>

NextBreaks == LBBegin \/ LBScanChar \/ LBInsert \/ LBEndScan \/ LBRestart \/ LBReturn
SpecBreaks == InitBreaks /\ [][NextBreaks]_vars
\* the function runs on: every step of it that can be taken is taken
FairSpecBreaks == SpecBreaks /\ WF_vars(NextBreaks)

\* C8: applyLengthBreaks terminates on every input, and the while loop runs
\* again only after an insertion (the text is one character longer) and with
\* scanStart strictly greater than when the iteration before began.
C8_LengthBreaksTerminates ==
    /\ <>(lb.pc = "return")
    /\ [][(lb.pc = "after" /\ lb'.pc = "while")
            => /\ lb.changed
               /\ Len(lb.newText) = lbIter.length + 1
               /\ lb.scanStart > lbIter.scanStart]_vars

\* a text whose only space begins a chunk has been scanned to the end without
\* an insertion, after a text with interior spaces made the loop run three times
C8_Witness ==
    /\ lb.pc = "return"
    /\ lbIter.begun = 3
    /\ Len(lb.newText) = Len(lbInput) + 2

C8_WitnessNoSpace ==
    /\ lb.pc = "return"
    /\ lbInput = Run(LIMIT + 1)
    /\ lb.newText = lbInput

\* the characters that end a sentence stretch for applyLengthBreaks
Terminators == {".", "?", "!", NL}
\* the first characters of the stretches of t between terminators
StretchStarts(t) ==
    {b \in 1..Len(t) : t[b] \notin Terminators /\ (b = 1 \/ t[b - 1] \in Terminators)}
\* the last character of the stretch that starts at b
StretchEnd(t, b) ==
    LET stops == {q \in b..Len(t) : t[q] \in Terminators}
    IN  IF stops = {} THEN Len(t)
        ELSE (CHOOSE q \in stops : \A r \in stops : q <= r) - 1

\* C16: in the text applyLengthBreaks returns, a stretch between sentence
\* terminators or newlines that is longer than 140 characters contains no
\* interior space (a space of the stretch with a word before it and a word
\* after it, where a break could have been placed).
C16_NoLongStretchWithSpace ==
    lb.pc = "return" =>
        \A b \in StretchStarts(lb.newText) :
            LET e == StretchEnd(lb.newText, b)
            IN  e - b + 1 > LIMIT =>
                    \A q \in (b + 1)..(e - 1) :
                        ~ /\ lb.newText[q] = SP
                          /\ \E r \in b..(q - 1) : lb.newText[r] # SP
                          /\ \E r \in (q + 1)..e : lb.newText[r] # SP

(***************************************************************************)
(* improve and callServer: src/structureJudge.js ("loose") and             *)
(* src/unnamed/part_005 ("strict")                                         *)
(***************************************************************************)
TIMEOUT_MS_loose == 8000
TIMEOUT_MS_strict == 2500
TIMEOUT_MS(v) == IF v = "loose" THEN TIMEOUT_MS_loose ELSE TIMEOUT_MS_strict
\* the step in which the model lets time pass
TickMs == 2500

T_ab == <<"a", SP, "b">>
T_Ab == <<"A", SP, "b", ".">>
T_cd == <<"c", SP, "d">>
T_a == <<"a">>
T_abPadded == <<SP, "a", SP, "b", NL>>
T_long == <<"a", SP, "b", SP, "c", SP, "d">>
JudgeRaws == {T_ab, T_a, <<>>}
JudgeSofts == {T_Ab, <<"A">>}
\* what the server can send with status 200: a completion with a string
\* content, JSON without choices, JSON whose content is no string, no JSON
JudgeBodies ==
    {[kind |-> "content", chars |-> c] : c \in {T_Ab, T_cd, T_a, T_abPadded, T_long, <<>>}}
      \cup {[kind |-> k, chars |-> <<>>] : k \in {"nochoices", "nonstring", "invalid"}}
JudgeStatuses == {200, 500}

\* resolve / reject of callServer's promise: only the first call settles it
Settle(p, outcome) == IF p.state = "pending" THEN outcome ELSE p

\* the text the model's answer is compared with: the first argument of
\* safetyCheck(rawText, result) / validateContent(rawText, result)
CheckedAgainst_softCandidates(raw, soft) == soft
CheckedAgainst(raw, soft) == raw

\* the content check improve applies
ContentCheck(v, raw, text) ==
    IF v = "loose" THEN safetyCheck(raw, text) ELSE validateContent(raw, text)

InitJudge ==
    /\ variant \in {"loose", "strict"}
    /\ rawText \in JudgeRaws
    /\ softCandidates \in JudgeSofts
    /\ pc = "start"
    /\ req = "none" /\ resStatus = 0 /\ resBody = NoBody /\ idleMs = 0
    /\ promise = Pending /\ settleCount = 0 /\ result = <<>>
    /\ validated = "none" /\ improved = Pending
    /\ ValIdle /\ FmtIdle /\ LBIdle /\ SrvIdle /\ AppIdle

\* improve up to await callServer(payload): logger.log, the payload, and
\* callServer up to req.end(); logger.log returns
ImproveStart ==
    /\ pc = "start"
    /\ LoggerCall("log") = "returns"
    /\ req' = "open"
    /\ idleMs' = 0
    /\ pc' = "await"
    /\ UNCHANGED <<variant, rawText, softCandidates, resStatus, resBody, promise,
                   settleCount, result, validated, improved, varsVal, varsFmt, varsLB, varsSrv, varsApp>>

\* req.on('error'): the connection is refused or reset before a response
ReqError ==
    /\ req = "open"
    /\ req' = "failed"
    /\ promise' = Settle(promise, Rejected("socket"))
    /\ settleCount' = settleCount + 1
    /\ UNCHANGED <<variant, rawText, softCandidates, pc, resStatus, resBody, idleMs,
                   result, validated, improved, varsVal, varsFmt, varsLB, varsSrv, varsApp>>

\* the response callback: the headers have arrived
ServerResponds ==
    /\ req = "open"
    /\ \E st \in JudgeStatuses :
         /\ resStatus' = st
         /\ IF st # 200
            THEN /\ req' = "ended"
                 /\ promise' = Settle(promise, Rejected("status"))
                 /\ settleCount' = settleCount + 1
                 /\ resBody' = resBody
            ELSE /\ req' = "response"
                 /\ \E b \in JudgeBodies : resBody' = b
                 /\ UNCHANGED <<promise, settleCount>>
    /\ idleMs' = 0
    /\ UNCHANGED <<variant, rawText, softCandidates, pc, result, validated, improved,
                   varsVal, varsFmt, varsLB, varsSrv, varsApp>>

\* res.on('data'): some bytes of the body arrive; the socket was active
ServerData ==
    /\ req = "response"
    /\ idleMs' = 0
    /\ UNCHANGED <<variant, rawText, softCandidates, pc, req, resStatus, resBody,
                   promise, settleCount, result, validated, improved,
                   varsVal, varsFmt, varsLB, varsSrv, varsApp>>

\* res.on('end'): JSON.parse, choices?.[0]?.message?.content || '', trim
ServerEnd ==
    /\ req = "response"
    /\ req' = "ended"
    /\ promise' = Settle(promise,
                     CASE resBody.kind = "content" -> Resolved(trim(resBody.chars))
                       [] resBody.kind = "nochoices" -> Resolved(<<>>)
                       [] OTHER -> Rejected("json"))
    /\ settleCount' = settleCount + 1
    /\ UNCHANGED <<variant, rawText, softCandidates, pc, resStatus, resBody, idleMs,
                   result, validated, improved, varsVal, varsFmt, varsLB, varsSrv, varsApp>>

\* the connection closes before the body is complete: 'aborted' and 'close'
\* are emitted on res, for which callServer registers no listener; neither
\* 'end' nor an 'error' on req follows, and a closed socket does not time out
ResAborted ==
    /\ req = "response"
    /\ req' = "aborted"
    /\ UNCHANGED <<variant, rawText, softCandidates, pc, resStatus, resBody, idleMs,
                   promise, settleCount, result, validated, improved,
                   varsVal, varsFmt, varsLB, varsSrv, varsApp>>

\* time passes with no activity on the socket
Tick ==
    /\ req \in {"open", "response"}
    /\ idleMs < TIMEOUT_MS(variant)
    /\ idleMs' = idleMs + TickMs
    /\ UNCHANGED <<variant, rawText, softCandidates, pc, req, resStatus, resBody,
                   promise, settleCount, result, validated, improved,
                   varsVal, varsFmt, varsLB, varsSrv, varsApp>>

\* req.on('timeout'): the socket has been idle for options.timeout
OnTimeout ==
    /\ req \in {"open", "response"}
    /\ idleMs >= TIMEOUT_MS(variant)
    /\ req' = "destroyed"
    /\ promise' = Settle(promise, Rejected("timeout"))
    /\ settleCount' = settleCount + 1
    /\ UNCHANGED <<variant, rawText, softCandidates, pc, resStatus, resBody, idleMs,
                   result, validated, improved, varsVal, varsFmt, varsLB, varsSrv, varsApp>>

\* req.on('error') after req.destroy(): socket hang up
ErrorAfterDestroy ==
    /\ req = "destroyed"
    /\ req' = "failed"
    /\ promise' = Settle(promise, Rejected("socket"))
    /\ settleCount' = settleCount + 1
    /\ UNCHANGED <<variant, rawText, softCandidates, pc, resStatus, resBody, idleMs,
                   result, validated, improved, varsVal, varsFmt, varsLB, varsSrv, varsApp>>

\* await returns the content: const result = ...; logger.log
AwaitFulfilled ==
    /\ pc = "await" /\ promise.state = "resolved"
    /\ LoggerCall("log") = "returns"
    /\ result' = promise.value
    /\ pc' = "check"
    /\ UNCHANGED <<variant, rawText, softCandidates, req, resStatus, resBody, idleMs,
                   promise, settleCount, validated, improved, varsVal, varsFmt, varsLB, varsSrv, varsApp>>

\* await throws what callServer rejected with: control moves to catch
AwaitRejected ==
    /\ pc = "await" /\ promise.state = "rejected"
    /\ pc' = "catch"
    /\ UNCHANGED <<variant, rawText, softCandidates, req, resStatus, resBody, idleMs,
                   promise, settleCount, result, validated, improved,
                   varsVal, varsFmt, varsLB, varsSrv, varsApp>>

\* the check passes: logger.log('Validation passed'); return result
CheckPasses ==
    /\ pc = "check" /\ ContentCheck(variant, CheckedAgainst(rawText, softCandidates), result)
    /\ LoggerCall("log") = "returns"
    /\ validated' = "pass"
    /\ improved' = Resolved(result)
    /\ pc' = "done"
    /\ UNCHANGED <<variant, rawText, softCandidates, req, resStatus, resBody, idleMs,
                   promise, settleCount, result, varsVal, varsFmt, varsLB, varsSrv, varsApp>>

\* the check fails: logger.warn(...); return softCandidates, inside try
CheckFails ==
    /\ pc = "check" /\ ~ContentCheck(variant, CheckedAgainst(rawText, softCandidates), result)
    /\ validated' = "fail"
    /\ IF LoggerCall("warn") = "returns"
       THEN improved' = Resolved(softCandidates) /\ pc' = "done"
       ELSE improved' = improved /\ pc' = "catch"
    /\ UNCHANGED <<variant, rawText, softCandidates, req, resStatus, resBody, idleMs,
                   promise, settleCount, result, varsVal, varsFmt, varsLB, varsSrv, varsApp>>

\* catch (err): logger.warn(...); return softCandidates
CatchFallback ==
    /\ pc = "catch"
    /\ improved' = IF LoggerCall("warn") = "returns"
                   THEN Resolved(softCandidates)
                   ELSE Rejected("TypeError")
    /\ pc' = "done"
    /\ UNCHANGED <<variant, rawText, softCandidates, req, resStatus, resBody, idleMs,
                   promise, settleCount, result, validated, varsVal, varsFmt, varsLB, varsSrv, varsApp>>

ImproveStep ==
    ImproveStart \/ AwaitFulfilled \/ AwaitRejected \/ CheckPasses \/ CheckFails \/ CatchFallback

NextJudge ==
    \/ ImproveStart \/ ReqError \/ ServerResponds \/ ServerData \/ ServerEnd \/ ResAborted
    \/ Tick \/ OnTimeout \/ ErrorAfterDestroy
    \/ AwaitFulfilled \/ AwaitRejected \/ CheckPasses \/ CheckFails \/ CatchFallback
SpecJudge == InitJudge /\ [][NextJudge]_vars
\* the event loop runs improve's continuations and the timer callback, and
\* time passes; nothing is assumed of the server
FairSpecJudge ==
    SpecJudge /\ WF_vars(ImproveStep) /\ WF_vars(Tick) /\ WF_vars(OnTimeout)

\* C1: when the request fails because the server is unreachable or the
\* request times out, improve resolves with exactly softCandidates.
C1_TransportFailureFallsBack ==
    (pc = "done" /\ promise.state = "rejected" /\ promise.error \in {"socket", "timeout"})
        => improved = Resolved(softCandidates)

\* C2: after a 200 response with generated text, improve resolves with
\* softCandidates when the text fails validation and with the trimmed text when
\* it passes; the promise never rejects.
C2_ValidationDecidesResult ==
    (pc = "done" /\ promise.state = "resolved")
        => /\ validated = "fail" => improved = Resolved(softCandidates)
           /\ validated = "pass" => improved = Resolved(trim(resBody.chars))

\* C3: whenever improve of src/structureJudge.js resolves with the model's
\* text, that text has exactly the words of rawText in the same order.
C3_AcceptedTextKeepsWords ==
    (variant = "loose" /\ pc = "done" /\ validated = "pass" /\ improved.state = "resolved")
        => WordSeq(improved.value) = WordSeq(rawText)

\* C9: every call of improve eventually settles, whatever the server does.
C9_ImproveEventuallySettles ==
    <>(improved.state # "pending")

\* a transport failure has happened to the request: a socket error, a
\* connection closed early, a timeout, a status other than 200, a body that
\* is no JSON
TransportFailure ==
    \/ req \in {"failed", "destroyed", "aborted"}
    \/ resStatus \notin {0, 200}
    \/ req = "ended" /\ resBody.kind = "invalid"

\* C21: every transport failure makes callServer reject; after a rejection
\* improve runs no validation and returns no text of the response; only a
\* 200 response with parseable JSON reaches validation; the promise of
\* callServer is settled once, whatever events follow.
C21_UniformTransportFailure ==
    /\ [](validated # "none" =>
            /\ resStatus = 200 /\ resBody.kind \in {"content", "nochoices"}
            /\ promise.state = "resolved")
    /\ [](promise.state = "rejected" =>
            /\ validated = "none"
            /\ improved.state = "resolved" => improved.value = softCandidates)
    /\ [][promise.state # "pending" => promise' = promise]_vars
    /\ (TransportFailure ~> promise.state = "rejected")

\* C20: whether improve accepts or rejects the model's answer is determined
\* by the variant, rawText and the server's response alone: two calls that
\* differ only in softCandidates both accept or both reject.
C20_DecisionIgnoresSoftCandidates ==
    validated # "none" =>
        (validated = "pass") = ContentCheck(variant, rawText, trim(resBody.chars))

\* an answer is rejected against rawText that softCandidates would have let pass
C20_Witness ==
    /\ validated = "fail"
    /\ softCandidates # rawText
    /\ ContentCheck(variant, softCandidates, trim(resBody.chars))

(***************************************************************************)
(* llamaServer.js: start, stop and the events of the child processes       *)
(***************************************************************************)
InitServer == ValIdle /\ FmtIdle /\ LBIdle /\ JudgeIdle /\ SrvIdle /\ AppIdle

\* lines 36-39: start() while a server is running or starting only logs
StartIgnored ==
    /\ serverProcess # 0 \/ isStarting
    /\ UNCHANGED vars

\* lines 41-82: spawn creates the child at once ("alive", 'spawn' queued),
\* or returns a ChildProcess that failed to spawn ('error' queued), or throws
Start ==
    /\ ~(serverProcess # 0 \/ isStarting)
    /\ \E p \in ProcIds :
        /\ procs[p] = "unborn" /\ \A q \in 1..(p - 1) : procs[q] # "unborn"
        /\ \E outcome \in {"spawned", "failed", "throws"} :
            IF outcome = "throws"
            THEN /\ isStarting' = FALSE
                 /\ procs' = [procs EXCEPT ![p] = "failed"]
                 /\ UNCHANGED <<serverProcess, pendingEvent>>
            ELSE /\ isStarting' = TRUE
                 /\ serverProcess' = p
                 /\ procs' = [procs EXCEPT ![p] = IF outcome = "spawned" THEN "alive" ELSE "failed"]
                 /\ pendingEvent' = [pendingEvent EXCEPT
                                        ![p] = IF outcome = "spawned" THEN "spawn" ELSE "error"]
    /\ UNCHANGED <<health, varsVal, varsFmt, varsLB, varsJudge, varsApp>>

\* lines 61-65: 'spawn' starts the health polling
OnSpawn(p) ==
    /\ pendingEvent[p] = "spawn"
    /\ pendingEvent' = [pendingEvent EXCEPT ![p] = "none"]
    /\ health' = [health EXCEPT ![p] = "polling"]
    /\ UNCHANGED <<serverProcess, isStarting, procs, varsVal, varsFmt, varsLB, varsJudge, varsApp>>

\* lines 67-71: 'error'
OnError(p) ==
    /\ pendingEvent[p] = "error"
    /\ pendingEvent' = [pendingEvent EXCEPT ![p] = "none"]
    /\ isStarting' = FALSE
    /\ serverProcess' = 0
    /\ UNCHANGED <<procs, health, varsVal, varsFmt, varsLB, varsJudge, varsApp>>

\* lines 73-77: the child has exited (killed by stop(), or on its own) and
\* its 'close' event is handled
OnClose(p) ==
    /\ procs[p] \in {"alive", "terminating"}
    /\ pendingEvent[p] = "none"
    /\ procs' = [procs EXCEPT ![p] = "closed"]
    /\ serverProcess' = 0
    /\ isStarting' = FALSE
    /\ UNCHANGED <<pendingEvent, health, varsVal, varsFmt, varsLB, varsJudge, varsApp>>

\* lines 91-97: a poll of /health is answered 200 (some child is listening)
HealthOk(p) ==
    /\ health[p] = "polling"
    /\ \E q \in ProcIds : procs[q] = "alive"
    /\ health' = [health EXCEPT ![p] = "cleared"]
    /\ isStarting' = FALSE
    /\ UNCHANGED <<serverProcess, procs, pendingEvent, varsVal, varsFmt, varsLB, varsJudge, varsApp>>

\* lines 105-109: attempts reached maxAttempts
HealthTimeout(p) ==
    /\ health[p] = "polling"
    /\ health' = [health EXCEPT ![p] = "cleared"]
    /\ isStarting' = FALSE
    /\ UNCHANGED <<serverProcess, procs, pendingEvent, varsVal, varsFmt, varsLB, varsJudge, varsApp>>

\* lines 116-122: stop()
Stop ==
    /\ IF serverProcess # 0
       THEN /\ procs' = [procs EXCEPT ![serverProcess] =
                            IF procs[serverProcess] = "alive" THEN "terminating"
                            ELSE procs[serverProcess]]
            /\ serverProcess' = 0
       ELSE UNCHANGED <<serverProcess, procs>>
    /\ UNCHANGED <<isStarting, pendingEvent, health, varsVal, varsFmt, varsLB, varsJudge, varsApp>>

NextServer ==
    \/ StartIgnored \/ Start \/ Stop
    \/ \E p \in ProcIds : OnSpawn(p) \/ OnError(p) \/ OnClose(p)
                            \/ HealthOk(p) \/ HealthTimeout(p)
SpecServer == InitServer /\ [][NextServer]_vars

\* the children that run and have not been told to terminate by stop()
LiveServers == {p \in ProcIds : procs[p] = "alive"}

\* C15: at most one llama-server child started by the module is alive at any
\* time, and serverProcess refers to it whenever one is alive.  (A child
\* that stop() has killed and that has not exited yet is not counted.)
C15_SingleServerInstance ==
    /\ Cardinality(LiveServers) <= 1
    /\ \A p \in LiveServers : serverProcess = p

(***************************************************************************)
(* whisperRunner.js: transcribe() and cancel() after init(cliPath,          *)
(* modelPath).  Main calls transcribe from its 'audio:stop' handler, which  *)
(* does not wait for an earlier transcription, and cancel from             *)
(* 'before-quit'.                                                          *)
(***************************************************************************)
InitWhisper == ValIdle /\ FmtIdle /\ LBIdle /\ JudgeIdle /\ SrvIdle /\ AppIdle

\* lines 113-175: spawn returns a ChildProcess that runs, or one that failed
\* to spawn and has its 'error' queued; currentProcess = whisperProcess
transcribe ==
    /\ \E p \in WhisperIds :
        /\ whisperProcs[p] = "unborn" /\ \A q \in 1..(p - 1) : whisperProcs[q] # "unborn"
        /\ \E outcome \in {"running", "failing"} :
            whisperProcs' = [whisperProcs EXCEPT ![p] = outcome]
        /\ currentProcess' = p
    /\ whisperOp' = "transcribe"
    /\ UNCHANGED <<varsText, outsideWhisper>>

\* lines 154-158: whisperProcess.on('error')
WhisperError(p) ==
    /\ whisperProcs[p] = "failing"
    /\ whisperProcs' = [whisperProcs EXCEPT ![p] = "closed"]
    /\ currentProcess' = 0
    /\ whisperOp' = "error"
    /\ UNCHANGED <<varsText, outsideWhisper>>

\* lines 160-173: the child has exited (on its own, or killed by cancel) and
\* whisperProcess.on('close') runs
WhisperClose(p) ==
    /\ whisperProcs[p] \in {"running", "killed"}
    /\ whisperProcs' = [whisperProcs EXCEPT ![p] = "closed"]
    /\ currentProcess' = 0
    /\ whisperOp' = "close"
    /\ UNCHANGED <<varsText, outsideWhisper>>

\* lines 180-186: cancel(); kill() signals the child, which exits later
cancel ==
    /\ IF currentProcess # 0
       THEN /\ whisperProcs' = [whisperProcs EXCEPT ![currentProcess] =
                                   IF @ = "running" THEN "killed" ELSE @]
            /\ currentProcess' = 0
       ELSE UNCHANGED <<whisperProcs, currentProcess>>
    /\ whisperOp' = "cancel"
    /\ UNCHANGED <<varsText, outsideWhisper>>

NextWhisper ==
    \/ transcribe \/ cancel
    \/ \E p \in WhisperIds : WhisperError(p) \/ WhisperClose(p)
SpecWhisper == InitWhisper /\ [][NextWhisper]_vars

\* the whisper processes that run and that no kill() has been sent to
RunningWhisper == {p \in WhisperIds : whisperProcs[p] = "running"}

\* C25: whenever a whisper process spawned by transcribe runs,
\* currentProcess refers to a running process, and right after cancel() no
\* spawned whisper process is left running without having been killed.
C25_CancelKillsRunningProcess ==
    /\ RunningWhisper # {} => currentProcess \in RunningWhisper
    /\ whisperOp = "cancel" => RunningWhisper = {}

(***************************************************************************)
(* The transcripts table (db.js, src/unnamed/part_004) under main's        *)
(* handlers 'audio:stop', 'transcript:rerun' and 'history:delete'          *)
(* (src/unnamed/part_002), starting from an empty table.                   *)
(***************************************************************************)
\* what whisper prints, trimmed by transcribe
StoreTexts ==
    {<<>>, W_so, join(<<W_new, W_line, W_so>>, SP), join(<<W_point, W_one, W_so>>, SP)}

Stored(table, id) == id \in DOMAIN table /\ table[id].status # "none"

\* INSERT INTO transcripts ...: the row gets the next AUTOINCREMENT id
insertTranscript(table, id, data) == [table EXCEPT ![id] = data]

\* UPDATE transcripts SET final_text = ? without its WHERE clause
updateFinalText_noWhere(table, id, finalText) ==
    [r \in DOMAIN table |->
        IF table[r].status # "none"
        THEN [table[r] EXCEPT !.final_text = finalText] ELSE table[r]]

\* UPDATE transcripts SET final_text = ? WHERE id = ?
updateFinalText(table, id, finalText) ==
    [r \in DOMAIN table |->
        IF r = id /\ table[r].status # "none"
        THEN [table[r] EXCEPT !.final_text = finalText] ELSE table[r]]

\* DELETE FROM transcripts WHERE id = ?
deleteTranscript(table, id) ==
    [r \in DOMAIN table |-> IF r = id THEN NoRow ELSE table[r]]

OkRow(text) == [status |-> "ok", raw_text |-> text, final_text |-> format(text)]
ErrorRow == [status |-> "error", raw_text |-> <<>>, final_text |-> <<>>]

InitStore == ValIdle /\ FmtIdle /\ LBIdle /\ JudgeIdle /\ SrvIdle /\ AppIdle

\* part_002 lines 232-253 and 254-285: transcribe resolved with text.  The row
\* is inserted; or insertTranscript throws and the catch block inserts an
\* error row; or that insert throws as well; or the row is inserted and the
\* send that follows throws, so that the catch block adds an error row
AudioStopTranscribed ==
    /\ \E text \in StoreTexts : \E outcome \in {"stored", "insertThrows", "bothThrow", "sendThrows"} :
        LET id == lastInsertRowid + 1 IN
        /\ id + (IF outcome = "sendThrows" THEN 1 ELSE 0) <= MaxTranscripts
        /\ transcripts' =
              CASE outcome = "stored" -> insertTranscript(transcripts, id, OkRow(text))
                [] outcome = "insertThrows" -> insertTranscript(transcripts, id, ErrorRow)
                [] outcome = "bothThrow" -> transcripts
                [] outcome = "sendThrows" ->
                     insertTranscript(insertTranscript(transcripts, id, OkRow(text)),
                                      id + 1, ErrorRow)
        /\ lastInsertRowid' =
              CASE outcome = "bothThrow" -> lastInsertRowid
                [] outcome = "sendThrows" -> id + 1
                [] OTHER -> id
        /\ storeOp' = [op |-> "audio:stop", id |-> id, threw |-> outcome # "stored"]
    /\ storeBefore' = transcripts
    /\ UNCHANGED <<varsText, outsideStore>>

\* part_002 lines 254-272: transcribe rejected
AudioStopFailed ==
    /\ \E outcome \in {"stored", "insertThrows"} :
        LET id == lastInsertRowid + 1 IN
        /\ id <= MaxTranscripts
        /\ transcripts' = IF outcome = "stored"
                          THEN insertTranscript(transcripts, id, ErrorRow)
                          ELSE transcripts
        /\ lastInsertRowid' = IF outcome = "stored" THEN id ELSE lastInsertRowid
        /\ storeOp' = [op |-> "audio:stop", id |-> id, threw |-> TRUE]
    /\ storeBefore' = transcripts
    /\ UNCHANGED <<varsText, outsideStore>>

\* part_002 lines 313-334: 'transcript:rerun'
TranscriptRerun(id) ==
    /\ IF ~Stored(transcripts, id)
       THEN /\ storeOp' = [op |-> "transcript:rerun", id |-> id, threw |-> TRUE]
            /\ UNCHANGED transcripts
       ELSE /\ transcripts' = updateFinalText(transcripts, id, format(transcripts[id].raw_text))
            /\ storeOp' = [op |-> "transcript:rerun", id |-> id, threw |-> FALSE]
    /\ storeBefore' = transcripts
    /\ UNCHANGED <<lastInsertRowid, varsText, outsideStore>>

\* part_002 lines 295-310: 'history:delete'
HistoryDelete(id) ==
    /\ transcripts' = IF Stored(transcripts, id) THEN deleteTranscript(transcripts, id)
                      ELSE transcripts
    /\ storeOp' = [op |-> "history:delete", id |-> id, threw |-> FALSE]
    /\ storeBefore' = transcripts
    /\ UNCHANGED <<lastInsertRowid, varsText, outsideStore>>

NextStore ==
    \/ AudioStopTranscribed \/ AudioStopFailed
    \/ \E id \in 1..(MaxTranscripts + 1) : TranscriptRerun(id) \/ HistoryDelete(id)
SpecStore == InitStore /\ [][NextStore]_vars

MaxKeyEvents == 6
Keycodes == {"Ctrl", "Space", "Other"}

InitPill == ValIdle /\ FmtIdle /\ LBIdle /\ JudgeIdle /\ SrvIdle /\ AppIdle

\* part_001 line 203 without the test of isRecording
KeyDownStarts_noGuard(ctrl, space, rec) == ctrl /\ space

\* part_001 line 203: if (isCtrlPressed && isSpacePressed && !isRecording)
KeyDownStarts(ctrl, space, rec) == ctrl /\ space /\ ~rec

\* part_001 line 214: if ((!isCtrlPressed || !isSpacePressed) && isRecording)
KeyUpStops(ctrl, space, rec) == (~ctrl \/ ~space) /\ rec

\* part_001 lines 199-207: uIOhook.on('keydown'), auto-repeats included
KeyDown(k) ==
    /\ keyEvents < MaxKeyEvents
    /\ keyEvents' = keyEvents + 1
    /\ isCtrlPressed' = IF k = "Ctrl" THEN TRUE ELSE isCtrlPressed
    /\ isSpacePressed' = IF k = "Space" THEN TRUE ELSE isSpacePressed
    /\ IF KeyDownStarts(isCtrlPressed', isSpacePressed', isRecording)
       THEN /\ isRecording' = TRUE
            /\ toPill' = Append(toPill, "start-recording")
            /\ hotkeyLog' = Append(hotkeyLog, "start-recording")
       ELSE UNCHANGED <<isRecording, toPill, hotkeyLog>>
    /\ UNCHANGED <<toMain, varsPill, varsMain, varsText, outsidePill>>

\* part_001 lines 209-218: uIOhook.on('keyup')
KeyUp(k) ==
    /\ keyEvents < MaxKeyEvents
    /\ keyEvents' = keyEvents + 1
    /\ isCtrlPressed' = IF k = "Ctrl" THEN FALSE ELSE isCtrlPressed
    /\ isSpacePressed' = IF k = "Space" THEN FALSE ELSE isSpacePressed
    /\ IF KeyUpStops(isCtrlPressed', isSpacePressed', isRecording)
       THEN /\ isRecording' = FALSE
            /\ toPill' = Append(toPill, "stop-recording")
            /\ hotkeyLog' = Append(hotkeyLog, "stop-recording")
       ELSE UNCHANGED <<isRecording, toPill, hotkeyLog>>
    /\ UNCHANGED <<toMain, varsPill, varsMain, varsText, outsidePill>>

\* part_008 lines 94-104: ipcRenderer.on('start-recording'); setRecording()
PillOnStartRecording ==
    /\ toPill # <<>> /\ Head(toPill) = "start-recording"
    /\ toPill' = Tail(toPill)
    /\ currentStateIndex' = 1
    /\ recordingDelayTimer' = TRUE
    /\ pillHeld' = TRUE
    /\ UNCHANGED <<isRecordingActive, toMain, varsKeys, varsMain, varsText, outsidePill>>

\* part_008 lines 99-103: the 300 ms timer fires
RecordingDelayFires ==
    /\ recordingDelayTimer
    /\ isRecordingActive' = TRUE
    /\ toMain' = Append(toMain, "audio:start")
    /\ recordingDelayTimer' = FALSE
    /\ UNCHANGED <<currentStateIndex, pillHeld, toPill, varsKeys, varsMain, varsText, outsidePill>>

\* part_008 lines 107-127: ipcRenderer.on('stop-recording')
PillOnStopRecording ==
    /\ toPill # <<>> /\ Head(toPill) = "stop-recording"
    /\ toPill' = Tail(toPill)
    /\ pillHeld' = FALSE
    /\ IF recordingDelayTimer
       THEN /\ recordingDelayTimer' = FALSE
            /\ isRecordingActive' = FALSE
            /\ currentStateIndex' = 0
            /\ UNCHANGED toMain
       ELSE IF isRecordingActive
       THEN /\ currentStateIndex' = 2
            /\ toMain' = Append(toMain, "audio:stop")
            /\ isRecordingActive' = FALSE
            /\ UNCHANGED recordingDelayTimer
       ELSE /\ currentStateIndex' = 0
            /\ UNCHANGED <<recordingDelayTimer, isRecordingActive, toMain>>
    /\ UNCHANGED <<varsKeys, varsMain, varsText, outsidePill>>

\* part_008 lines 140-151: ipcRenderer.on('transcription-complete'); setIdle()
PillOnTranscriptionComplete ==
    /\ toPill # <<>> /\ Head(toPill) = "transcription-complete"
    /\ toPill' = Tail(toPill)
    /\ currentStateIndex' = 0
    /\ UNCHANGED <<recordingDelayTimer, isRecordingActive, pillHeld, toMain,
                   varsKeys, varsMain, varsText, outsidePill>>

\* part_001 lines 230-240: ipcMain.on('audio:start'); startRecording ignores
\* the request while recording, and otherwise starts or fails and cleans up
MainOnAudioStart ==
    /\ toMain # <<>> /\ Head(toMain) = "audio:start"
    /\ toMain' = Tail(toMain)
    /\ IF recording THEN UNCHANGED recording
       ELSE \E started \in BOOLEAN : recording' = started
    /\ UNCHANGED <<stopRuns, toPill, varsKeys, varsPill, varsText, outsidePill>>

\* pillWindow.webContents.send('transcription-complete', ...) by run h, which
\* ends it
SendComplete(h, path) ==
    /\ toPill' = Append(toPill, "transcription-complete")
    /\ stopRuns' = [stopRuns EXCEPT ![h] =
                       [pc |-> "done", path |-> path, sent |-> stopRuns[h].sent + 1]]

\* the same step of run h without the send
SkipComplete(h, path) ==
    /\ toPill' = toPill
    /\ stopRuns' = [stopRuns EXCEPT ![h] =
                       [pc |-> "done", path |-> path, sent |-> stopRuns[h].sent]]

\* part_001 lines 242-252 and 352-359: ipcMain.on('audio:stop') up to the
\* first await; stopRecording returns null when nothing is being recorded or
\* when stopping throws
MainOnAudioStop(h) ==
    /\ toMain # <<>> /\ Head(toMain) = "audio:stop"
    /\ stopRuns[h].pc = "free" /\ \A g \in 1..(h - 1) : stopRuns[g].pc # "free"
    /\ toMain' = Tail(toMain)
    /\ recording' = FALSE
    /\ IF ~recording
       THEN SendComplete(h, "no recording")
       ELSE \E saved \in BOOLEAN :
              IF saved
              THEN /\ stopRuns' = [stopRuns EXCEPT ![h].pc = "delay"]
                   /\ UNCHANGED toPill
              ELSE SendComplete(h, "no recording")
    /\ UNCHANGED <<varsKeys, varsPill, varsText, outsidePill>>

\* part_001 lines 252-264: after the 200 ms delay, the file is missing, or
\* transcribe is called and spawns whisper
StopDelayDone(h) ==
    /\ stopRuns[h].pc = "delay"
    /\ \E exists \in BOOLEAN :
        IF exists
        THEN /\ stopRuns' = [stopRuns EXCEPT ![h].pc = "transcribing"]
             /\ UNCHANGED toPill
        ELSE SendComplete(h, "file missing")
    /\ UNCHANGED <<recording, toMain, varsKeys, varsPill, varsText, outsidePill>>

\* whisperRunner.js lines 154-173: the whisper process of run h emits 'close'
\* with code 0, or 'close' with another code or 'error'
WhisperSettles(h) ==
    /\ stopRuns[h].pc = "transcribing"
    /\ \E resolved \in BOOLEAN :
        stopRuns' = [stopRuns EXCEPT ![h] =
                        IF resolved THEN [@ EXCEPT !.pc = "store"]
                        ELSE [@ EXCEPT !.pc = "catch", !.path = "transcription failure"]]
    /\ UNCHANGED <<recording, toPill, toMain, varsKeys, varsPill, varsText, outsidePill>>

\* part_001 lines 264-282: format and db.insertTranscript, which may throw
StopStore(h) ==
    /\ stopRuns[h].pc = "store"
    /\ \E stored \in BOOLEAN :
        stopRuns' = [stopRuns EXCEPT ![h] =
                        IF stored THEN [@ EXCEPT !.pc = "paste"]
                        ELSE [@ EXCEPT !.pc = "catch", !.path = "store exception"]]
    /\ UNCHANGED <<recording, toPill, toMain, varsKeys, varsPill, varsText, outsidePill>>

\* part_001 lines 285-320: the paste block; what it throws is caught there
StopPaste(h) ==
    /\ stopRuns[h].pc = "paste"
    /\ \E pasted \in BOOLEAN :
        stopRuns' = [stopRuns EXCEPT ![h] =
                        [@ EXCEPT !.pc = "send",
                                  !.path = IF pasted THEN "success" ELSE "paste exception"]]
    /\ UNCHANGED <<recording, toPill, toMain, varsKeys, varsPill, varsText, outsidePill>>

\* part_001 lines 322-325
StopSend(h) ==
    /\ stopRuns[h].pc = "send"
    /\ SendComplete(h, stopRuns[h].path)
    /\ UNCHANGED <<recording, toMain, varsKeys, varsPill, varsText, outsidePill>>

\* the catch block without its send
StopCatch_noSend(h) ==
    /\ stopRuns[h].pc = "catch"
    /\ SkipComplete(h, stopRuns[h].path)
    /\ UNCHANGED <<recording, toMain, varsKeys, varsPill, varsText, outsidePill>>

\* part_001 lines 332-351 and 360-367: catch (transcribeErr) stores an error
\* row and sends; if storing throws, the outer catch sends
StopCatch(h) ==
    /\ stopRuns[h].pc = "catch"
    /\ SendComplete(h, stopRuns[h].path)
    /\ UNCHANGED <<recording, toMain, varsKeys, varsPill, varsText, outsidePill>>

\* the steps main takes for a run of the 'audio:stop' handler
StopStep ==
    \E h \in StopIds : \/ StopDelayDone(h) \/ WhisperSettles(h) \/ StopStore(h)
                       \/ StopPaste(h) \/ StopSend(h) \/ StopCatch(h)
NextPill ==
    \/ \E k \in Keycodes : KeyDown(k) \/ KeyUp(k)
    \/ PillOnStartRecording \/ RecordingDelayFires \/ PillOnStopRecording
    \/ PillOnTranscriptionComplete
    \/ MainOnAudioStart
    \/ \E h \in StopIds : MainOnAudioStop(h)
    \/ StopStep
SpecPill == InitPill /\ [][NextPill]_vars


\* C28: over any sequence of keydown and keyup events for Ctrl, Space and
\* other keys, main sends 'start-recording' and 'stop-recording' strictly
\* alternately, beginning with 'start-recording', and isRecording is true
\* only while both Ctrl and Space are tracked as pressed.
C28_HoldToTalkProtocol ==
    /\ \A i \in 1..Len(hotkeyLog) :
        hotkeyLog[i] = IF i % 2 = 1 THEN "start-recording" ELSE "stop-recording"
    /\ isRecording => (isCtrlPressed /\ isSpacePressed)

\* the hotkey is held for the second time, after key events that sent nothing
C28_Witness ==
    /\ hotkeyLog = <<"start-recording", "stop-recording", "start-recording">>
    /\ isRecording /\ keyEvents > 4

\* C29: from the moment the pill handles 'start-recording' until it handles
\* the next 'stop-recording', the pill does not show the idle state.
C29_NoIdleWhileHeld ==
    pillHeld => currentStateIndex # 0

\* main's event loop runs every timer and continuation of a handler, and
\* every spawned whisper process emits 'close' or 'error'
FairSpecPill == SpecPill /\ WF_vars(StopStep)

\* C27: every run of main's 'audio:stop' handler eventually sends at least
\* one 'transcription-complete' message to the pill window, on each of its
\* paths.
C27_EveryStopCompletes ==
    \A h \in StopIds : (stopRuns[h].pc # "free") ~> (stopRuns[h].sent >= 1)

\* two runs have ended, one after a failed transcription and one after an
\* exception in the paste block, and both have sent
C27_Witness ==
    /\ \E h \in StopIds : stopRuns[h] = [pc |-> "done", path |-> "transcription failure", sent |-> 1]
    /\ \E h \in StopIds : stopRuns[h] = [pc |-> "done", path |-> "paste exception", sent |-> 1]

(***************************************************************************)
(* waitForHealth (src/unnamed/part_000) for one call start(executablePath, *)
(* modelPath, onReady): every 500 ms tick sends a request of its own, and  *)
(* a request has no timeout, so that requests of several ticks can await   *)
(* their responses together.                                               *)
(***************************************************************************)
maxAttempts == 60
\* the requests that await a response at the same time
MaxHealthRequests == 3

InitHealth == ValIdle /\ FmtIdle /\ LBIdle /\ JudgeIdle /\ SrvIdle /\ AppIdle

\* the one call of start
StartOnce == procs[1] = "unborn" /\ Start

\* lines 89-91 and 103-109: a tick of the interval
HealthPoll ==
    /\ health[1] = "polling"
    /\ healthRequests < MaxHealthRequests
    /\ attempts' = attempts + 1
    /\ healthRequests' = healthRequests + 1
    /\ IF attempts' >= maxAttempts
       THEN /\ health' = [health EXCEPT ![1] = "cleared"]
            /\ isStarting' = FALSE
       ELSE UNCHANGED <<health, isStarting>>
    /\ UNCHANGED <<onReadyCalls, serverProcess, procs, pendingEvent,
                   varsVal, varsFmt, varsLB, varsJudge, outsideHealth>>

\* lines 91-98: the response callback of one request
HealthResponse(statusCode) ==
    /\ healthRequests > 0
    /\ \E q \in ProcIds : procs[q] = "alive"
    /\ healthRequests' = healthRequests - 1
    /\ IF statusCode = 200
       THEN /\ health' = [health EXCEPT ![1] = "cleared"]
            /\ isStarting' = FALSE
            /\ onReadyCalls' = onReadyCalls + 1
       ELSE UNCHANGED <<health, isStarting, onReadyCalls>>
    /\ UNCHANGED <<attempts, serverProcess, procs, pendingEvent,
                   varsVal, varsFmt, varsLB, varsJudge, outsideHealth>>

\* lines 100-102: req.on('error')
HealthRequestError ==
    /\ healthRequests > 0
    /\ healthRequests' = healthRequests - 1
    /\ UNCHANGED <<attempts, onReadyCalls, varsSrv,
                   varsVal, varsFmt, varsLB, varsJudge, outsideHealth>>

NextHealth ==
    \/ StartOnce \/ OnSpawn(1) \/ OnError(1) \/ OnClose(1) \/ Stop
    \/ HealthPoll \/ HealthRequestError
    \/ \E statusCode \in {200, 503} : HealthResponse(statusCode)
SpecHealth == InitHealth /\ [][NextHealth]_vars

\* C30: for one call of start, onReady is invoked at most once, whatever the
\* order of the health responses and the polling ticks.
C30_OnReadyAtMostOnce ==
    onReadyCalls <= 1

====
